---- MODULE Spec2Model ----
(***************************************************************************)
(* The "additional" block of the resume builder: the AdditionalForm that   *)
(* edits an AdditionalInfo object and the four renderers that lay it out   *)
(* in two columns (keyword-highlight view, Modern, Swiss single-column and *)
(* Modern two-column templates).                                           *)
(*                                                                         *)
(* Encoding.  A JavaScript value that may be undefined is an option: the   *)
(* empty sequence None, or the one-element sequence Some(v).  A string is  *)
(* a sequence of one-character strings (a fixed text such as a default     *)
(* label is a sequence of one token).  skillsLeftColumnRatio is kept in    *)
(* hundredths (0.25 is 25) and skillsColumnGapRem in hundredths of a rem   *)
(* (1.25 is 125); every number the code uses is a multiple of 0.01.        *)
(***************************************************************************)
EXTENDS Integers, Sequences, FiniteSets, TLC

VARIABLES data, sectionVisible, additionalSectionLabels, sectionHeadings,
          view, last, edits, personalInfo, contact, keywords, highlighted,
          custom

vars == <<data, sectionVisible, additionalSectionLabels, sectionHeadings,
          view, last, edits, personalInfo, contact, keywords, highlighted,
          custom>>

(* ------------------------------ bounds -------------------------------- *)

MaxEdits == 2

MaxOrderLen == 2

MaxTextLen == 5

MaxKeywordSets == 2

(* ------------------------- JavaScript values -------------------------- *)

None == <<>>

Some(v) == <<v>>

OrElse(o, d) == IF o = None THEN d ELSE o[1]

Whitespace == {" ", "\t"}

RECURSIVE TrimStart(_)
TrimStart(s) ==
    IF s # <<>> /\ Head(s) \in Whitespace THEN TrimStart(Tail(s)) ELSE s

RECURSIVE TrimEnd(_)
TrimEnd(s) ==
    IF s # <<>> /\ s[Len(s)] \in Whitespace
    THEN TrimEnd(SubSeq(s, 1, Len(s) - 1))
    ELSE s

Trim(s) == TrimEnd(TrimStart(s))

MathMin(a, b) == IF a < b THEN a ELSE b

MathMax(a, b) == IF a > b THEN a ELSE b

MathCeilHalf(n) == (n \div 2) + (IF n % 2 = 0 THEN 0 ELSE 1)

\* Array.prototype.indexOf, 1-based; 0 stands for JavaScript's -1.
RECURSIVE IndexFrom(_, _, _)
IndexFrom(s, x, i) ==
    IF i > Len(s) THEN 0
    ELSE IF s[i] = x THEN i
    ELSE IndexFrom(s, x, i + 1)

IndexOf(s, x) == IndexFrom(s, x, 1)

\* splice(i, 1) and splice(i, 0, x) on a copy, 1-based.
SpliceOut(s, i) == SubSeq(s, 1, i - 1) \o SubSeq(s, i + 1, Len(s))

SpliceIn(s, i, x) == SubSeq(s, 1, i - 1) \o <<x>> \o SubSeq(s, i, Len(s))

(* ---------------------------- AdditionalInfo -------------------------- *)

DEFAULT_ADDITIONAL_SECTION_ORDER ==
    <<"technicalSkills", "languages", "certificationsTraining", "awards",
      "creativeTools">>

AdditionalSectionKey ==
    {"technicalSkills", "languages", "certificationsTraining", "awards",
     "creativeTools"}

ADDITIONAL_FIELD_KEYS == DEFAULT_ADDITIONAL_SECTION_ORDER

\* t(key): the translation lookup, an opaque collaborator; the translated
\* text is one token naming the key.
t(key) == <<key>>

\* additional[key] ?? [] followed by items.length > 0, for any string key.
\* A category list or the order array has a length; the labels map and the
\* two numbers have none (undefined > 0 is false); any other name is
\* undefined.
\* The order array read as a category list holds the key names as its strings.
ItemsOf(additional, key) ==
    IF key \in AdditionalSectionKey
    THEN OrElse(additional[key], <<>>)
    ELSE IF key = "additionalSectionOrder"
    THEN LET order == OrElse(additional.additionalSectionOrder, <<>>)
         IN  [i \in 1..Len(order) |-> <<order[i]>>]
    ELSE <<>>

\* Mutant: the override is used as typed.
OverrideUntrimmed(additional, key) ==
    LET labels == additional.additionalSubsectionLabels
    IN  IF labels = None THEN None
        ELSE IF key \notin DOMAIN labels[1] THEN None
        ELSE Some(labels[1][key])

\* additional.additionalSubsectionLabels?.[key]?.trim()
OverrideTrimmed(additional, key) ==
    LET labels == additional.additionalSubsectionLabels
    IN  IF labels = None THEN None
        ELSE IF key \notin DOMAIN labels[1] THEN None
        ELSE Some(Trim(labels[1][key]))

\* a || b on an optional string: undefined and '' are falsy.
OrDefault(o, d) == IF o = None \/ o = Some(<<>>) THEN d ELSE o[1]

\* labelByKey[key] of a Record<AdditionalSectionKey, string>: undefined for
\* a key that is not one of its five properties.
LabelAt(labelByKey, key) ==
    IF key \in DOMAIN labelByKey THEN Some(labelByKey[key]) ELSE None

\* labels?.name and sectionHeadings?.name on an optional partial table.
PropAt(table, name) ==
    IF table = None THEN None
    ELSE IF name \in DOMAIN table[1] THEN Some(table[1][name])
    ELSE None

\* rows.slice(0, mid) and rows.slice(mid)
SliceTo(rows, mid) == SubSeq(rows, 1, mid)

SliceFrom(rows, mid) == SubSeq(rows, mid + 1, Len(rows))

\* .filter((r) => r !== null) on the mapped array of optional rows.
FilterNotNull(mapped) ==
    LET kept == SelectSeq(mapped, LAMBDA r : r # None)
    IN  [i \in 1..Len(kept) |-> kept[i][1]]

(* --------------------- keyword-highlight view ------------------------- *)

HighlightDefaultLabels ==
    [technicalSkills        |-> t("resume.additional.technicalSkills"),
     languages              |-> t("resume.sections.languages"),
     certificationsTraining |-> t("resume.sections.certifications"),
     awards                 |-> t("resume.sections.awards"),
     creativeTools          |-> t("resume.sections.creativeTools")]

HighlightLabelByKey(additional) ==
    [technicalSkills        |->
        OrDefault(OverrideTrimmed(additional, "technicalSkills"),
                  HighlightDefaultLabels.technicalSkills),
     languages              |->
        OrDefault(OverrideTrimmed(additional, "languages"),
                  HighlightDefaultLabels.languages),
     certificationsTraining |->
        OrDefault(OverrideTrimmed(additional, "certificationsTraining"),
                  HighlightDefaultLabels.certificationsTraining),
     awards                 |->
        OrDefault(OverrideTrimmed(additional, "awards"),
                  HighlightDefaultLabels.awards),
     creativeTools          |->
        OrDefault(OverrideTrimmed(additional, "creativeTools"),
                  HighlightDefaultLabels.creativeTools)]

HighlightRows(additional) ==
    LET order == OrElse(additional.additionalSectionOrder,
                        DEFAULT_ADDITIONAL_SECTION_ORDER)
        labelByKey == HighlightLabelByKey(additional)
        row(key) ==
            LET items == ItemsOf(additional, key)
            IN  IF Len(items) > 0
                THEN Some([key |-> key, label |-> LabelAt(labelByKey, key),
                           items |-> items])
                ELSE None
    IN  FilterNotNull([i \in 1..Len(order) |-> row(order[i])])

\* Mutant: the split rounds down.
HighlightMidFloor(rows) == Len(rows) \div 2

HighlightMid(rows) == MathCeilHalf(Len(rows))

HighlightLeftRatio(additional) ==
    MathMin(75, MathMax(25, OrElse(additional.skillsLeftColumnRatio, 50)))

HighlightGapRem(additional) ==
    MathMin(250, MathMax(50, OrElse(additional.skillsColumnGapRem, 125)))

\* The skills block of HighlightedResumeView: None when it returns null.
HighlightLayout(additional) ==
    LET rows == HighlightRows(additional)
        mid == HighlightMid(rows)
        leftRatio == HighlightLeftRatio(additional)
        gapRem == HighlightGapRem(additional)
    IN  IF Len(rows) = 0 THEN None
        ELSE Some([leftRows |-> SliceTo(rows, mid),
                   rightRows |-> SliceFrom(rows, mid),
                   leftRatio |-> leftRatio,
                   rightRatio |-> 100 - leftRatio,
                   gapRem |-> gapRem])

(* --------------------------- Modern template -------------------------- *)

ModernMergedLabels(labels) ==
    [technicalSkills |-> OrElse(PropAt(labels, "technicalSkills"),
                                <<"Technical Skills:">>),
     languages       |-> OrElse(PropAt(labels, "languages"), <<"Languages:">>),
     certifications  |-> OrElse(PropAt(labels, "certifications"),
                                <<"Certifications:">>),
     awards          |-> OrElse(PropAt(labels, "awards"), <<"Awards:">>),
     creativeTools   |-> OrElse(PropAt(labels, "creativeTools"),
                                <<"Creative Tools:">>)]

ModernLabelByKey(additional, labels) ==
    LET mergedLabels == ModernMergedLabels(labels)
    IN  [technicalSkills        |->
            OrDefault(OverrideTrimmed(additional, "technicalSkills"),
                      mergedLabels.technicalSkills),
         languages              |->
            OrDefault(OverrideTrimmed(additional, "languages"),
                      mergedLabels.languages),
         certificationsTraining |->
            OrDefault(OverrideTrimmed(additional, "certificationsTraining"),
                      mergedLabels.certifications),
         awards                 |->
            OrDefault(OverrideTrimmed(additional, "awards"),
                      mergedLabels.awards),
         creativeTools          |->
            OrDefault(OverrideTrimmed(additional, "creativeTools"),
                      mergedLabels.creativeTools)]

\* Mutant: a row is kept whatever the length of its list.
ModernRowsKeepEmpty(additional, labels) ==
    LET order == OrElse(additional.additionalSectionOrder,
                        DEFAULT_ADDITIONAL_SECTION_ORDER)
        labelByKey == ModernLabelByKey(additional, labels)
        row(key) ==
            Some([key |-> key, label |-> LabelAt(labelByKey, key),
                  items |-> ItemsOf(additional, key)])
    IN  FilterNotNull([i \in 1..Len(order) |-> row(order[i])])

ModernRows(additional, labels) ==
    LET order == OrElse(additional.additionalSectionOrder,
                        DEFAULT_ADDITIONAL_SECTION_ORDER)
        labelByKey == ModernLabelByKey(additional, labels)
        row(key) ==
            LET items == ItemsOf(additional, key)
            IN  IF Len(items) > 0
                THEN Some([key |-> key, label |-> LabelAt(labelByKey, key),
                           items |-> items])
                ELSE None
    IN  FilterNotNull([i \in 1..Len(order) |-> row(order[i])])

ModernMid(rows) == MathCeilHalf(Len(rows))

ModernLeftRatio(additional) ==
    MathMin(75, MathMax(25, OrElse(additional.skillsLeftColumnRatio, 50)))

ModernGapRem(additional) ==
    MathMin(250, MathMax(50, OrElse(additional.skillsColumnGapRem, 125)))

\* AdditionalSection of the Modern template: None when it returns null.
ModernAdditionalSection(additional, labels) ==
    LET rows == ModernRows(additional, labels)
        mid == ModernMid(rows)
        leftRatio == ModernLeftRatio(additional)
        gapRem == ModernGapRem(additional)
    IN  IF Len(rows) = 0 THEN None
        ELSE Some([leftRows |-> SliceTo(rows, mid),
                   rightRows |-> SliceFrom(rows, mid),
                   leftRatio |-> leftRatio,
                   rightRatio |-> 100 - leftRatio,
                   gapRem |-> gapRem])

(* --------------------- Swiss single-column template ------------------- *)

SingleColumnMergedLabels(labels) ==
    [technicalSkills |-> OrElse(PropAt(labels, "technicalSkills"),
                                <<"Technical Skills:">>),
     languages       |-> OrElse(PropAt(labels, "languages"), <<"Languages:">>),
     certifications  |-> OrElse(PropAt(labels, "certifications"),
                                <<"Certifications:">>),
     awards          |-> OrElse(PropAt(labels, "awards"), <<"Awards:">>),
     creativeTools   |-> OrElse(PropAt(labels, "creativeTools"),
                                <<"Creative Tools:">>)]

SingleColumnLabelByKey(additional, labels) ==
    LET mergedLabels == SingleColumnMergedLabels(labels)
    IN  [technicalSkills        |->
            OrDefault(OverrideTrimmed(additional, "technicalSkills"),
                      mergedLabels.technicalSkills),
         languages              |->
            OrDefault(OverrideTrimmed(additional, "languages"),
                      mergedLabels.languages),
         certificationsTraining |->
            OrDefault(OverrideTrimmed(additional, "certificationsTraining"),
                      mergedLabels.certifications),
         awards                 |->
            OrDefault(OverrideTrimmed(additional, "awards"),
                      mergedLabels.awards),
         creativeTools          |->
            OrDefault(OverrideTrimmed(additional, "creativeTools"),
                      mergedLabels.creativeTools)]

\* Mutant: the stored order is not consulted.
SingleColumnRowsDefaultOrder(additional, labels) ==
    LET order == DEFAULT_ADDITIONAL_SECTION_ORDER
        labelByKey == SingleColumnLabelByKey(additional, labels)
        row(key) ==
            LET items == ItemsOf(additional, key)
            IN  IF Len(items) > 0
                THEN Some([key |-> key, label |-> LabelAt(labelByKey, key),
                           items |-> items])
                ELSE None
    IN  FilterNotNull([i \in 1..Len(order) |-> row(order[i])])

SingleColumnRows(additional, labels) ==
    LET order == OrElse(additional.additionalSectionOrder,
                        DEFAULT_ADDITIONAL_SECTION_ORDER)
        labelByKey == SingleColumnLabelByKey(additional, labels)
        row(key) ==
            LET items == ItemsOf(additional, key)
            IN  IF Len(items) > 0
                THEN Some([key |-> key, label |-> LabelAt(labelByKey, key),
                           items |-> items])
                ELSE None
    IN  FilterNotNull([i \in 1..Len(order) |-> row(order[i])])

SingleColumnMid(rows) == MathCeilHalf(Len(rows))

SingleColumnLeftRatio(additional) ==
    MathMin(75, MathMax(25, OrElse(additional.skillsLeftColumnRatio, 50)))

SingleColumnGapRem(additional) ==
    MathMin(250, MathMax(50, OrElse(additional.skillsColumnGapRem, 125)))

\* AdditionalSection of the Swiss template: None when it returns null.
SingleColumnAdditionalSection(additional, labels) ==
    LET rows == SingleColumnRows(additional, labels)
        mid == SingleColumnMid(rows)
        leftRatio == SingleColumnLeftRatio(additional)
        gapRem == SingleColumnGapRem(additional)
    IN  IF Len(rows) = 0 THEN None
        ELSE Some([leftRows |-> SliceTo(rows, mid),
                   rightRows |-> SliceFrom(rows, mid),
                   leftRatio |-> leftRatio,
                   rightRatio |-> 100 - leftRatio,
                   gapRem |-> gapRem])

(* ---------------------- Modern two-column template -------------------- *)

TwoColumnHeadingFallbacks(headings) ==
    [certifications |-> OrElse(PropAt(headings, "certifications"),
                               <<"Training & Certifications">>),
     skills         |-> OrElse(PropAt(headings, "skills"), <<"Skills">>),
     languages      |-> OrElse(PropAt(headings, "languages"), <<"Languages">>),
     awards         |-> OrElse(PropAt(headings, "awards"), <<"Awards">>),
     creativeTools  |-> OrElse(PropAt(headings, "creativeTools"),
                               <<"Creative Tools">>)]

TwoColumnLabelByKey(additional, headings) ==
    LET headingFallbacks == TwoColumnHeadingFallbacks(headings)
    IN  [technicalSkills        |->
            OrDefault(OverrideTrimmed(additional, "technicalSkills"),
                      headingFallbacks.skills),
         languages              |->
            OrDefault(OverrideTrimmed(additional, "languages"),
                      headingFallbacks.languages),
         certificationsTraining |->
            OrDefault(OverrideTrimmed(additional, "certificationsTraining"),
                      headingFallbacks.certifications),
         awards                 |->
            OrDefault(OverrideTrimmed(additional, "awards"),
                      headingFallbacks.awards),
         creativeTools          |->
            OrDefault(OverrideTrimmed(additional, "creativeTools"),
                      headingFallbacks.creativeTools)]

TwoColumnRows(additional, headings) ==
    LET order == OrElse(additional.additionalSectionOrder,
                        DEFAULT_ADDITIONAL_SECTION_ORDER)
        labelByKey == TwoColumnLabelByKey(additional, headings)
        row(key) ==
            LET items == ItemsOf(additional, key)
            IN  IF Len(items) > 0
                THEN Some([key |-> key, label |-> LabelAt(labelByKey, key),
                           items |-> items])
                ELSE None
    IN  FilterNotNull([i \in 1..Len(order) |-> row(order[i])])

\* Mutant: the split rounds down.
TwoColumnMidFloor(rows) == Len(rows) \div 2

TwoColumnMid(rows) == MathCeilHalf(Len(rows))

\* Mutant: the lower clamp only.
TwoColumnLeftRatioNoMax(additional) ==
    MathMax(25, OrElse(additional.skillsLeftColumnRatio, 50))

TwoColumnLeftRatio(additional) ==
    MathMin(75, MathMax(25, OrElse(additional.skillsLeftColumnRatio, 50)))

TwoColumnGapRem(additional) ==
    MathMin(250, MathMax(50, OrElse(additional.skillsColumnGapRem, 125)))

\* The sidebar block of ResumeModernTwoColumn, inside its visibility gate:
\* None when the function returns null.
TwoColumnLayout(additional, headings) ==
    LET rows == TwoColumnRows(additional, headings)
        mid == TwoColumnMid(rows)
        leftRatio == TwoColumnLeftRatio(additional)
        gapRem == TwoColumnGapRem(additional)
    IN  IF Len(rows) = 0 THEN None
        ELSE Some([leftRows |-> SliceTo(rows, mid),
                   rightRows |-> SliceFrom(rows, mid),
                   leftRatio |-> leftRatio,
                   rightRatio |-> 100 - leftRatio,
                   gapRem |-> gapRem])

\* Mutant: a section is visible only if its metadata entry says so.
IsSectionVisibleOnlyIfListed(visible) == OrElse(visible, FALSE)

\* isSectionVisible('additional'): section?.isVisible ?? true, where the
\* metadata entry is absent (None) or carries isVisible.
IsSectionVisible(visible) == OrElse(visible, TRUE)

\* The Certifications/Training list of the main column.
TwoColumnMainCertifications(visible, additional) ==
    IF IsSectionVisible(visible)
       /\ Len(OrElse(additional.certificationsTraining, <<>>)) > 0
    THEN additional.certificationsTraining[1]
    ELSE <<>>

TwoColumnSidebar(visible, additional, headings) ==
    IF IsSectionVisible(visible)
    THEN TwoColumnLayout(additional, headings)
    ELSE None

(* -------------------------- keyword segmenter ------------------------- *)

UpperCaseLetters ==
    <<"A", "B", "C", "D", "E", "F", "G", "H", "I", "J", "K", "L", "M", "N",
      "O", "P", "Q", "R", "S", "T", "U", "V", "W", "X", "Y", "Z">>

LowerCaseLetters ==
    <<"a", "b", "c", "d", "e", "f", "g", "h", "i", "j", "k", "l", "m", "n",
      "o", "p", "q", "r", "s", "t", "u", "v", "w", "x", "y", "z">>

LowerCaseOf ==
    [c \in {UpperCaseLetters[i] : i \in 1..Len(UpperCaseLetters)} |->
        LowerCaseLetters[CHOOSE i \in 1..Len(UpperCaseLetters) :
                             UpperCaseLetters[i] = c]]

ToLowerChar(c) == IF c \in DOMAIN LowerCaseOf THEN LowerCaseOf[c] ELSE c

ToLowerCase(s) == [i \in 1..Len(s) |-> ToLowerChar(s[i])]

\* The characters of the model that are neither letters nor digits.
NonAlphanumeric == {" ", "\t", "\n", ",", ".", ":", "/", "@", "+", "-"}

IsAlphanumeric(c) == c \notin NonAlphanumeric

\* Mutant: a keyword also matches inside a longer alphanumeric run.
MatchesAtAnywhere(text, keyword, i) ==
    LET end == i + Len(keyword) - 1
    IN  /\ Len(keyword) > 0
        /\ end <= Len(text)
        /\ ToLowerCase(SubSeq(text, i, end)) = ToLowerCase(keyword)

\* keyword covers text[i .. i + Len(keyword) - 1] case-insensitively, and
\* that span is not inside a longer alphanumeric run.
MatchesAt(text, keyword, i) ==
    LET end == i + Len(keyword) - 1
    IN  /\ Len(keyword) > 0
        /\ end <= Len(text)
        /\ i = 1 \/ ~IsAlphanumeric(text[i - 1])
        /\ end = Len(text) \/ ~IsAlphanumeric(text[end + 1])
        /\ ToLowerCase(SubSeq(text, i, end)) = ToLowerCase(keyword)

MatchLengthsAt(text, words, i) ==
    {Len(keyword) : keyword \in {k \in words : MatchesAt(text, k, i)}}

\* Mutant: the shortest keyword matching at i is taken.
ShortestMatchAt(text, words, i) ==
    LET lengths == MatchLengthsAt(text, words, i)
    IN  IF lengths = {} THEN 0
        ELSE CHOOSE n \in lengths : \A m \in lengths : n <= m

\* The length of the longest keyword matching at i, 0 when none does.
LongestMatchAt(text, words, i) ==
    LET lengths == MatchLengthsAt(text, words, i)
    IN  IF lengths = {} THEN 0
        ELSE CHOOSE n \in lengths : \A m \in lengths : n >= m

Segment(text, isMatch) == [text |-> text, isMatch |-> isMatch]

\* The pending unmatched run, closed into a segment when it is not empty.
FlushRun(run) == IF run = <<>> THEN <<>> ELSE <<Segment(run, FALSE)>>

\* Mutant: a matched span is emitted without the unmatched run before it.
ScanStepDropRun(text, n, i, run, out) ==
    IF n > 0
    THEN [i |-> i + n, run |-> <<>>,
          out |-> Append(out, Segment(SubSeq(text, i, i + n - 1), TRUE))]
    ELSE [i |-> i + 1, run |-> Append(run, text[i]), out |-> out]

\* One step of the left-to-right scan at position i, where n is the length
\* of the match found there: consume the match, or one unmatched character.
ScanStep(text, n, i, run, out) ==
    IF n > 0
    THEN [i |-> i + n, run |-> <<>>,
          out |-> (out \o FlushRun(run))
                      \o <<Segment(SubSeq(text, i, i + n - 1), TRUE)>>]
    ELSE [i |-> i + 1, run |-> Append(run, text[i]), out |-> out]

RECURSIVE ScanSegments(_, _, _, _, _)
ScanSegments(text, words, i, run, out) ==
    IF i > Len(text) THEN out \o FlushRun(run)
    ELSE LET step == ScanStep(text, LongestMatchAt(text, words, i), i, run, out)
         IN  ScanSegments(text, words, step.i, step.run, step.out)

\* Mutant: an empty keyword set gives no segment at all.
segmentTextByKeywordsNoIdentity(text, words) ==
    IF words = {} \/ text = <<>> THEN <<>>
    ELSE ScanSegments(text, words, 1, <<>>, <<>>)

\* segmentTextByKeywords(text, keywords)
segmentTextByKeywords(text, words) ==
    IF words = {} \/ text = <<>> THEN <<Segment(text, FALSE)>>
    ELSE ScanSegments(text, words, 1, <<>>, <<>>)

\* The text a sequence of segments shows: the <mark> and <span> children of
\* HighlightedText, in order.
RECURSIVE DisplayedText(_)
DisplayedText(segments) ==
    IF segments = <<>> THEN <<>>
    ELSE Head(segments).text \o DisplayedText(Tail(segments))

(* ------------------------------ row text ------------------------------ *)

\* Mutant: the items are joined last to first.
JoinCommaReversed(items) ==
    IF Len(items) = 0 THEN <<>>
    ELSE LET J[n \in 1..Len(items)] ==
                 IF n = 1 THEN items[Len(items)]
                 ELSE (J[n - 1] \o <<",", " ">>) \o items[Len(items) + 1 - n]
         IN  J[Len(items)]

\* items.join(', ')
JoinComma(items) ==
    IF Len(items) = 0 THEN <<>>
    ELSE LET J[n \in 1..Len(items)] ==
                 IF n = 1 THEN items[1]
                 ELSE (J[n - 1] \o <<",", " ">>) \o items[n]
         IN  J[Len(items)]

\* renderRow of HighlightedResumeView: the joined items go through
\* HighlightedText.
HighlightRenderRow(row, words) ==
    [key |-> row.key, label |-> row.label,
     text |-> DisplayedText(segmentTextByKeywords(JoinComma(row.items), words))]

ModernRenderRow(row) ==
    [key |-> row.key, label |-> row.label, text |-> JoinComma(row.items)]

SingleColumnRenderRow(row) ==
    [key |-> row.key, label |-> row.label, text |-> JoinComma(row.items)]

TwoColumnRenderRow(row) ==
    [key |-> row.key, label |-> row.label, text |-> JoinComma(row.items)]

\* The rows a block renders, leftRows.map(renderRow) first and then
\* rightRows.map(renderRow): none when the block is null.
BlockRows(block) ==
    IF block = None THEN <<>> ELSE block[1].leftRows \o block[1].rightRows

(* ------------------------------ rendering ----------------------------- *)

\* getSortedSections(data) lists the visible sections; Modern and Swiss
\* render AdditionalSection for its 'additional' entry.
InSortedSections(visible) == OrElse(visible, TRUE)

\* arr.join('\n')
RECURSIVE JoinLines(_)
JoinLines(arr) ==
    IF arr = <<>> THEN <<>>
    ELSE IF Len(arr) = 1 THEN Head(arr)
    ELSE Head(arr) \o <<"\n">> \o JoinLines(Tail(arr))

\* arr?.join('\n') || '': the text of a category textarea.
formatArray(arr) ==
    LET joined == IF arr = None THEN None ELSE Some(JoinLines(arr[1]))
    IN  IF joined = None \/ joined = Some(<<>>) THEN <<>> ELSE joined[1]

\* Math.round(clamp * 100): the clamp is a whole number of hundredths.
FormLeftRatioPercent(additional) ==
    MathMin(75, MathMax(25, OrElse(additional.skillsLeftColumnRatio, 50)))

FormGapRem(additional) ==
    MathMin(250, MathMax(50, OrElse(additional.skillsColumnGapRem, 125)))

RenderAll(additional, visible, labels, headings, words) ==
    [form      |-> [leftRatioPercent |-> FormLeftRatioPercent(additional),
                    gapRem |-> FormGapRem(additional),
                    value |-> [key \in AdditionalSectionKey |->
                                  formatArray(additional[key])]],
     highlight |-> HighlightLayout(additional),
     modern    |-> IF InSortedSections(visible)
                   THEN ModernAdditionalSection(additional, labels)
                   ELSE None,
     swiss     |-> IF InSortedSections(visible)
                   THEN SingleColumnAdditionalSection(additional, labels)
                   ELSE None,
     twoColumn |-> TwoColumnSidebar(visible, additional, headings),
     mainCertifications |-> TwoColumnMainCertifications(visible, additional),
     shown     |->
        LET highlightRows == BlockRows(HighlightLayout(additional))
            modernRows ==
                IF InSortedSections(visible)
                THEN BlockRows(ModernAdditionalSection(additional, labels))
                ELSE <<>>
            swissRows ==
                IF InSortedSections(visible)
                THEN BlockRows(SingleColumnAdditionalSection(additional, labels))
                ELSE <<>>
            twoColumnRows ==
                BlockRows(TwoColumnSidebar(visible, additional, headings))
        IN  [highlight |-> [i \in 1..Len(highlightRows) |->
                               HighlightRenderRow(highlightRows[i], words)],
             modern    |-> [i \in 1..Len(modernRows) |->
                               ModernRenderRow(modernRows[i])],
             swiss     |-> [i \in 1..Len(swissRows) |->
                               SingleColumnRenderRow(swissRows[i])],
             twoColumn |-> [i \in 1..Len(twoColumnRows) |->
                               TwoColumnRenderRow(twoColumnRows[i])]]]
(* --------------------------- contact details -------------------------- *)

\* value.startsWith(prefix)
StartsWith(s, prefix) ==
    Len(s) >= Len(prefix) /\ SubSeq(s, 1, Len(prefix)) = prefix

\* s.replace(/^prefix/, '') for a literal prefix
DropPrefix(s, prefix) ==
    IF StartsWith(s, prefix) THEN SubSeq(s, Len(prefix) + 1, Len(s)) ELSE s

HttpText == <<"h", "t", "t", "p">>

SlashSlash == <<"/", "/">>

HttpScheme == <<"h", "t", "t", "p", ":", "/", "/">>

HttpsScheme == <<"h", "t", "t", "p", "s", ":", "/", "/">>

MailtoPrefix == <<"m", "a", "i", "l", "t", "o", ":">>

TelPrefix == <<"t", "e", "l", ":">>

WwwDot == <<"w", "w", "w", ".">>

\* The default of the hrefPrefix parameter.
NoPrefix == <<>>

LinkLabels == {"Website", "LinkedIn", "GitHub"}

\* value.replace(/^https?:\/\//, '')
StripScheme(value) ==
    IF StartsWith(value, HttpsScheme) THEN DropPrefix(value, HttpsScheme)
    ELSE DropPrefix(value, HttpScheme)

\* Mutant: the scheme is prepended whatever the value starts with.
ModernFinalHrefPrefixAlways(label, value, hrefPrefix) ==
    IF label \in LinkLabels THEN HttpsScheme ELSE hrefPrefix

\* ResumeModern.renderContactDetail: finalHrefPrefix
ModernFinalHrefPrefix(label, value, hrefPrefix) ==
    IF /\ label \in LinkLabels
       /\ ~StartsWith(value, HttpText)
       /\ ~StartsWith(value, SlashSlash)
    THEN HttpsScheme
    ELSE hrefPrefix

\* ResumeModern.renderContactDetail: None when it returns null, else the
\* element: an anchor with href when isLink, a plain span otherwise.
ModernRenderContactDetail(label, value, hrefPrefix) ==
    LET v == OrElse(value, <<>>)
        finalHrefPrefix == ModernFinalHrefPrefix(label, v, hrefPrefix)
        href == finalHrefPrefix \o v
        isLink == \/ StartsWith(finalHrefPrefix, HttpText)
                  \/ StartsWith(finalHrefPrefix, MailtoPrefix)
                  \/ StartsWith(finalHrefPrefix, TelPrefix)
        displayText == IF isLink /\ label \in LinkLabels
                       THEN DropPrefix(StripScheme(v), WwwDot)
                       ELSE v
    IN  IF v = <<>> THEN None
        ELSE Some([label |-> label, isLink |-> isLink, href |-> href,
                   text |-> displayText])

SingleColumnFinalHrefPrefix(label, value, hrefPrefix) ==
    IF /\ label \in LinkLabels
       /\ ~StartsWith(value, HttpText)
       /\ ~StartsWith(value, SlashSlash)
    THEN HttpsScheme
    ELSE hrefPrefix

\* ResumeSingleColumn.renderContactDetail
SingleColumnRenderContactDetail(label, value, hrefPrefix) ==
    LET v == OrElse(value, <<>>)
        finalHrefPrefix == SingleColumnFinalHrefPrefix(label, v, hrefPrefix)
        href == finalHrefPrefix \o v
        isLink == \/ StartsWith(finalHrefPrefix, HttpText)
                  \/ StartsWith(finalHrefPrefix, MailtoPrefix)
                  \/ StartsWith(finalHrefPrefix, TelPrefix)
        displayText == IF isLink /\ label \in LinkLabels
                       THEN DropPrefix(StripScheme(v), WwwDot)
                       ELSE v
    IN  IF v = <<>> THEN None
        ELSE Some([label |-> label, isLink |-> isLink, href |-> href,
                   text |-> displayText])

TwoColumnFinalHrefPrefix(label, value, hrefPrefix) ==
    IF /\ label \in LinkLabels
       /\ ~StartsWith(value, HttpText)
       /\ ~StartsWith(value, SlashSlash)
    THEN HttpsScheme
    ELSE hrefPrefix

\* ResumeModernTwoColumn.renderContactDetail
TwoColumnRenderContactDetail(label, value, hrefPrefix) ==
    LET v == OrElse(value, <<>>)
        finalHrefPrefix == TwoColumnFinalHrefPrefix(label, v, hrefPrefix)
        href == finalHrefPrefix \o v
        isLink == \/ StartsWith(finalHrefPrefix, HttpText)
                  \/ StartsWith(finalHrefPrefix, MailtoPrefix)
                  \/ StartsWith(finalHrefPrefix, TelPrefix)
        displayText == IF isLink /\ label \in LinkLabels
                       THEN DropPrefix(StripScheme(v), WwwDot)
                       ELSE v
    IN  IF v = <<>> THEN None
        ELSE Some([label |-> label, isLink |-> isLink, href |-> href,
                   text |-> displayText])

\* {cond && ...}: a missing or empty string is falsy.
Truthy(value) == OrElse(value, <<>>) # <<>>

\* What React puts in the line for {renderContactDetail(...)}: nothing for
\* null, else the element.
Rendered(detail) == IF detail = None THEN <<>> ELSE <<detail[1]>>

\* <span>,</span>
Separator ==
    [label |-> ",", isLink |-> FALSE, href |-> <<>>, text |-> <<",">>]

\* The contact line of the ResumeModern header.
ModernContactLine(info) ==
    Rendered(ModernRenderContactDetail("Email", info.email, MailtoPrefix))
    \o (IF Truthy(info.phone)
        THEN <<Separator>>
             \o Rendered(ModernRenderContactDetail("Phone", info.phone, TelPrefix))
        ELSE <<>>)
    \o (IF Truthy(info.location)
        THEN <<Separator>>
             \o Rendered(ModernRenderContactDetail("Location", info.location, NoPrefix))
        ELSE <<>>)
    \o (IF Truthy(info.website)
        THEN <<Separator>>
             \o Rendered(ModernRenderContactDetail("Website", info.website, NoPrefix))
        ELSE <<>>)
    \o (IF Truthy(info.linkedin)
        THEN <<Separator>>
             \o Rendered(ModernRenderContactDetail("LinkedIn", info.linkedin, NoPrefix))
        ELSE <<>>)
    \o (IF Truthy(info.github)
        THEN <<Separator>>
             \o Rendered(ModernRenderContactDetail("GitHub", info.github, NoPrefix))
        ELSE <<>>)

\* The contact line of the ResumeSingleColumn header.
SingleColumnContactLine(info) ==
    Rendered(SingleColumnRenderContactDetail("Email", info.email, MailtoPrefix))
    \o (IF Truthy(info.phone)
        THEN <<Separator>>
             \o Rendered(SingleColumnRenderContactDetail("Phone", info.phone, TelPrefix))
        ELSE <<>>)
    \o (IF Truthy(info.location)
        THEN <<Separator>>
             \o Rendered(SingleColumnRenderContactDetail("Location", info.location, NoPrefix))
        ELSE <<>>)
    \o (IF Truthy(info.website)
        THEN <<Separator>>
             \o Rendered(SingleColumnRenderContactDetail("Website", info.website, NoPrefix))
        ELSE <<>>)
    \o (IF Truthy(info.linkedin)
        THEN <<Separator>>
             \o Rendered(SingleColumnRenderContactDetail("LinkedIn", info.linkedin, NoPrefix))
        ELSE <<>>)
    \o (IF Truthy(info.github)
        THEN <<Separator>>
             \o Rendered(SingleColumnRenderContactDetail("GitHub", info.github, NoPrefix))
        ELSE <<>>)

\* The contact line of the ResumeModernTwoColumn header: no separators.
TwoColumnContactLine(info) ==
    Rendered(TwoColumnRenderContactDetail("Email", info.email, MailtoPrefix))
    \o Rendered(TwoColumnRenderContactDetail("Phone", info.phone, TelPrefix))
    \o Rendered(TwoColumnRenderContactDetail("Location", info.location, NoPrefix))
    \o Rendered(TwoColumnRenderContactDetail("Website", info.website, NoPrefix))
    \o Rendered(TwoColumnRenderContactDetail("LinkedIn", info.linkedin, NoPrefix))
    \o Rendered(TwoColumnRenderContactDetail("GitHub", info.github, NoPrefix))

\* The Links block of the ResumeModernTwoColumn sidebar.
TwoColumnLinks(info) ==
    IF Truthy(info.website) \/ Truthy(info.linkedin) \/ Truthy(info.github)
    THEN (IF Truthy(info.linkedin)
          THEN Rendered(TwoColumnRenderContactDetail("LinkedIn", info.linkedin, NoPrefix))
          ELSE <<>>)
         \o (IF Truthy(info.github)
             THEN Rendered(TwoColumnRenderContactDetail("GitHub", info.github, NoPrefix))
             ELSE <<>>)
         \o (IF Truthy(info.website)
             THEN Rendered(TwoColumnRenderContactDetail("Website", info.website, NoPrefix))
             ELSE <<>>)
    ELSE <<>>

\* The contact details each template renders from personalInfo.
RenderContact(info) ==
    [modern         |-> ModernContactLine(info),
     swiss          |-> SingleColumnContactLine(info),
     twoColumn      |-> TwoColumnContactLine(info),
     twoColumnLinks |-> TwoColumnLinks(info)]

(* --------------------------- AdditionalForm --------------------------- *)

\* value.split('\n')
RECURSIVE SplitLines(_, _)
SplitLines(value, line) ==
    IF value = <<>> THEN <<line>>
    ELSE IF Head(value) = "\n" THEN <<line>> \o SplitLines(Tail(value), <<>>)
    ELSE SplitLines(Tail(value), Append(line, Head(value)))

\* Mutant: every kept line is stored trimmed.
ParseItemsTrimmed(value) ==
    LET kept == SelectSeq(SplitLines(value, <<>>), LAMBDA item : Trim(item) # <<>>)
    IN  [i \in 1..Len(kept) |-> Trim(kept[i])]

ParseItems(value) ==
    SelectSeq(SplitLines(value, <<>>), LAMBDA item : Trim(item) # <<>>)

\* The parent applies onChange(next) and React renders the new data.
Emit(next, event) ==
    /\ data' = next
    /\ view' = Some(RenderAll(next, sectionVisible, additionalSectionLabels,
                              sectionHeadings, keywords.words))
    /\ last' = [event EXCEPT !.emitted = TRUE]
    /\ edits' = edits + 1
    /\ UNCHANGED <<sectionVisible, additionalSectionLabels, sectionHeadings,
                   personalInfo, contact, keywords, highlighted, custom>>

\* A handler that returns before onChange: nothing is rendered again.
NoEmit(event) ==
    /\ last' = [event EXCEPT !.emitted = FALSE]
    /\ edits' = edits + 1
    /\ UNCHANGED <<data, view, sectionVisible, additionalSectionLabels,
                   sectionHeadings, personalInfo, contact, keywords,
                   highlighted, custom>>

\* The record of a handler call: prev is the data the handler received and
\* received is that same object as it is when the handler returns.  A
\* handler that only builds an object literal writes to no existing object.
Event(op, key, arg) ==
    [op |-> op, key |-> key, arg |-> arg, emitted |-> FALSE, prev |-> data,
     received |-> data]

Mounted == view # None /\ edits < MaxEdits

\* Mutant: the new object holds the edited list only, without ...data.
handleArrayChangeNoSpread(field, value) ==
    /\ Mounted
    /\ Emit([f \in DOMAIN data |->
                IF f = field THEN Some(ParseItems(value)) ELSE None],
            Event("handleArrayChange", field, Some(value)))

handleArrayChange(field, value) ==
    /\ Mounted
    /\ Emit([data EXCEPT ![field] = Some(ParseItems(value))],
            Event("handleArrayChange", field, Some(value)))

\* Mutant: next is stored even when it has no key left.
SubsectionLabelsAfterKeepEmpty(additional, key, value) ==
    LET current == OrElse(additional.additionalSubsectionLabels, <<>>)
        kept == DOMAIN current \ {key}
    IN  Some(IF Trim(value) = <<>>
             THEN [k \in kept |-> current[k]]
             ELSE [k \in kept \cup {key} |->
                      IF k = key THEN value ELSE current[k]])

SubsectionLabelsAfter(additional, key, value) ==
    LET current == OrElse(additional.additionalSubsectionLabels, <<>>)
        kept == DOMAIN current \ {key}
        next == IF Trim(value) = <<>>
                THEN [k \in kept |-> current[k]]
                ELSE [k \in kept \cup {key} |->
                         IF k = key THEN value ELSE current[k]]
    IN  IF DOMAIN next # {} THEN Some(next) ELSE None

\* const next = { ...data.additionalSubsectionLabels }: the delete or the
\* assignment acts on next, a second map; labels is the map inside data.
SubsectionLabelMaps(additional, key, value) ==
    [labels |-> additional.additionalSubsectionLabels,
     next   |-> SubsectionLabelsAfter(additional, key, value)]

handleSubsectionLabelChange(key, value) ==
    LET maps == SubsectionLabelMaps(data, key, value)
        event == Event("handleSubsectionLabelChange", key, Some(value))
    IN  /\ Mounted
        /\ Emit([data EXCEPT !.additionalSubsectionLabels = maps.next],
                [event EXCEPT !.received =
                    [data EXCEPT !.additionalSubsectionLabels = maps.labels]])

FormOrder(additional) ==
    OrElse(additional.additionalSectionOrder, ADDITIONAL_FIELD_KEYS)

\* Mutant: the dragged key is inserted without being removed first.
ArrayMoveCopy(order, oldIndex, newIndex) ==
    SpliceIn(order, newIndex, order[oldIndex])

\* Mutant: the dragged key and the key under it change places.
ArrayMoveSwap(order, oldIndex, newIndex) ==
    [i \in 1..Len(order) |->
        IF i = oldIndex THEN order[newIndex]
        ELSE IF i = newIndex THEN order[oldIndex]
        ELSE order[i]]

\* Mutant: the two indices change roles, so the key under the pointer is
\* the one that moves.
ArrayMoveOver(order, oldIndex, newIndex) ==
    SpliceIn(SpliceOut(order, newIndex), oldIndex, order[newIndex])

\* const [removed] = newOrder.splice(oldIndex, 1);
\* newOrder.splice(newIndex, 0, removed);
ArrayMove(order, oldIndex, newIndex) ==
    SpliceIn(SpliceOut(order, oldIndex), newIndex, order[oldIndex])

\* Mutant: newOrder is order itself, so the splices also change order.
DragEndArraysAliased(order, oldIndex, newIndex) ==
    [order    |-> ArrayMove(order, oldIndex, newIndex),
     newOrder |-> ArrayMove(order, oldIndex, newIndex)]

\* const newOrder = [...order]: the two splices act on newOrder, a second
\* array; order is the array inside data (or ADDITIONAL_FIELD_KEYS).
DragEndArrays(order, oldIndex, newIndex) ==
    [order    |-> order,
     newOrder |-> ArrayMove(order, oldIndex, newIndex)]

\* Mutant: the drop is applied without the two early returns.
handleDragEndUnguarded(active, over) ==
    LET order == FormOrder(data)
        event == Event("handleDragEnd", active, over)
        oldIndex == IndexOf(order, active)
        newIndex == IF over = None THEN 0 ELSE IndexOf(order, over[1])
        newOrder == IF oldIndex = 0 \/ newIndex = 0 THEN order
                    ELSE ArrayMove(order, oldIndex, newIndex)
    IN  /\ Mounted
        /\ Emit([data EXCEPT !.additionalSectionOrder = Some(newOrder)], event)

handleDragEnd(active, over) ==
    LET order == FormOrder(data)
        event == Event("handleDragEnd", active, over)
        oldIndex == IndexOf(order, active)
        newIndex == IndexOf(order, over[1])
        arrays == DragEndArrays(order, oldIndex, newIndex)
    IN  /\ Mounted
        /\ IF over = None \/ active = over[1]
           THEN NoEmit(event)
           ELSE IF oldIndex = 0 \/ newIndex = 0
           THEN NoEmit(event)
           ELSE Emit([data EXCEPT !.additionalSectionOrder =
                                     Some(arrays.newOrder)],
                     [event EXCEPT !.received =
                         IF data.additionalSectionOrder = None THEN data
                         ELSE [data EXCEPT !.additionalSectionOrder =
                                              Some(arrays.order)]])

\* Mutant: Number(e.target.value) is stored without the division by 100.
handleColumnRatioChangeNoDivide(percent) ==
    /\ Mounted
    /\ Emit([data EXCEPT !.skillsLeftColumnRatio = Some(percent * 100)],
            Event("handleColumnRatioChange", "skillsLeftColumnRatio",
                  Some(percent)))

\* Number(e.target.value) / 100, in hundredths.
handleColumnRatioChange(percent) ==
    /\ Mounted
    /\ Emit([data EXCEPT !.skillsLeftColumnRatio = Some(percent)],
            Event("handleColumnRatioChange", "skillsLeftColumnRatio",
                  Some(percent)))

handleColumnGapChange(gap) ==
    /\ Mounted
    /\ Emit([data EXCEPT !.skillsColumnGapRem = Some(gap)],
            Event("handleColumnGapChange", "skillsColumnGapRem", Some(gap)))

\* The first render of the host view and of the three templates.
Mount ==
    /\ view = None
    /\ view' = Some(RenderAll(data, sectionVisible, additionalSectionLabels,
                              sectionHeadings, keywords.words))
    /\ contact' = Some(RenderContact(personalInfo))
    /\ UNCHANGED <<data, sectionVisible, additionalSectionLabels,
                   sectionHeadings, last, edits, personalInfo, keywords,
                   highlighted, custom>>

(* -------------------------- PersonalInfoForm -------------------------- *)

PersonalInfoKeys ==
    {"name", "title", "email", "phone", "location", "website", "linkedin",
     "github"}

\* onChange({ ...data, [field]: value }): the parent applies it and the
\* templates render the new personal info.
handleChange(field, value) ==
    /\ Mounted
    /\ personalInfo' = [personalInfo EXCEPT ![field] = Some(value)]
    /\ contact' = Some(RenderContact(personalInfo'))
    /\ last' = [op |-> "handleChange", key |-> field, arg |-> Some(value),
                emitted |-> TRUE, prev |-> personalInfo,
                received |-> personalInfo]
    /\ edits' = edits + 1
    /\ UNCHANGED <<data, view, sectionVisible, additionalSectionLabels,
                   sectionHeadings, keywords, highlighted, custom>>

(* --------------------------- custom sections -------------------------- *)

\* One entry of customSection.items.map(...): what the item's elements
\* hold; the years go through formatDateRange, kept as its argument.
RenderItem(item) ==
    [title       |-> item.title,
     years       |-> IF Truthy(item.years)
                     THEN Some([formatDateRange |-> item.years[1]])
                     ELSE None,
     meta        |-> IF Truthy(item.subtitle) \/ Truthy(item.location)
                     THEN Some((IF Truthy(item.subtitle)
                                THEN <<item.subtitle[1]>> ELSE <<>>)
                               \o (IF Truthy(item.location)
                                   THEN <<item.location[1]>> ELSE <<>>))
                     ELSE None,
     description |-> IF item.description # None /\ Len(item.description[1]) > 0
                     THEN item.description
                     ELSE None]

renderDynamicContent(sectionType, customSection) ==
    CASE sectionType = "text" ->
            IF Trim(OrElse(customSection.text, <<>>)) = <<>> THEN None
            ELSE Some([tag |-> "p", text |-> customSection.text[1]])
      [] sectionType = "itemList" ->
            IF Len(OrElse(customSection.items, <<>>)) = 0 THEN None
            ELSE Some([tag |-> "items",
                       items |-> [i \in 1..Len(customSection.items[1]) |->
                                     RenderItem(customSection.items[1][i])]])
      [] sectionType = "stringList" ->
            IF Len(OrElse(customSection.strings, <<>>)) = 0 THEN None
            ELSE Some([tag |-> "strings",
                       text |-> JoinComma(customSection.strings[1])])
      [] OTHER -> None

\* const hasContent = (() => { switch (sectionMeta.sectionType) ... })()
HasContent(sectionType, customSection) ==
    CASE sectionType = "text" ->
            Trim(OrElse(customSection.text, <<>>)) # <<>>
      [] sectionType = "itemList" ->
            Len(OrElse(customSection.items, <<>>)) # 0
      [] sectionType = "stringList" ->
            Len(OrElse(customSection.strings, <<>>)) # 0
      [] OTHER -> FALSE

\* resumeData.customSections?.[sectionMeta.key]
CustomSectionOf(sectionMeta, customSections) ==
    IF customSections = None THEN None
    ELSE IF sectionMeta.key \in DOMAIN customSections[1]
    THEN Some(customSections[1][sectionMeta.key])
    ELSE None

\* Mutant: the heading and the content are returned without the hasContent
\* test.
DynamicResumeSectionModernUnchecked(sectionMeta, customSections) ==
    LET customSection == CustomSectionOf(sectionMeta, customSections)
    IN  IF customSection = None THEN None
        ELSE Some([heading |-> sectionMeta.displayName,
                   content |-> renderDynamicContent(sectionMeta.sectionType,
                                                    customSection[1])])

DynamicResumeSectionModern(sectionMeta, customSections) ==
    LET customSection == CustomSectionOf(sectionMeta, customSections)
    IN  IF customSection = None THEN None
        ELSE IF ~HasContent(sectionMeta.sectionType, customSection[1]) THEN None
        ELSE Some([heading |-> sectionMeta.displayName,
                   content |-> renderDynamicContent(sectionMeta.sectionType,
                                                    customSection[1])])

\* A resume with a custom section entry that was not rendered yet.
CustomSectionProps(sectionMeta, customSections) ==
    [sectionMeta |-> sectionMeta, customSections |-> customSections,
     rendered |-> None]

\* React renders <DynamicResumeSectionModern sectionMeta resumeData />.
RenderCustomSection ==
    /\ custom.rendered = None
    /\ custom' = [custom EXCEPT !.rendered =
                     Some(DynamicResumeSectionModern(custom.sectionMeta,
                                                     custom.customSections))]
    /\ UNCHANGED <<data, sectionVisible, additionalSectionLabels,
                   sectionHeadings, view, last, edits, personalInfo, contact,
                   keywords, highlighted>>

\* A resume without custom sections.
NoCustomSection ==
    CustomSectionProps([key |-> "custom", sectionType |-> "text",
                        displayName |-> <<"Custom">>], None)

(* ------------------------------- inputs ------------------------------- *)

\* What the user can type into a category textarea and into a title input.
TextareaInputs == {<<>>, <<"a", "\n", " ", "\n", "b", " ">>}

TitleInputs == {<<>>, <<" ", "\t">>, <<" ", "x", " ">>}

\* The range inputs: 25..75 in steps of 5, and 0.5..2.5 in steps of 0.25.
RatioSliderValues == {25 + 5 * i : i \in 0..10}

GapSliderValues == {50 + 25 * i : i \in 0..8}

\* The slider positions the model drags to.
RatioSliderInputs == {v \in RatioSliderValues : v \in {30, 75}}

GapSliderInputs == {v \in GapSliderValues : v \in {50, 225}}

\* Ids dnd-kit reports: the sortable rows, or a droppable that is no row.
DragIds(additional) ==
    {FormOrder(additional)[i] : i \in 1..Len(FormOrder(additional))}

OverIds(additional) == DragIds(additional) \cup {"outside"}

SampleItems(key) == << <<key, "1">>, <<key, "2">> >>

AdditionalInfo(lists, order, labels, ratio, gap) ==
    [technicalSkills            |-> lists["technicalSkills"],
     languages                  |-> lists["languages"],
     certificationsTraining     |-> lists["certificationsTraining"],
     awards                     |-> lists["awards"],
     creativeTools              |-> lists["creativeTools"],
     additionalSectionOrder     |-> order,
     additionalSubsectionLabels |-> labels,
     skillsLeftColumnRatio      |-> ratio,
     skillsColumnGapRem         |-> gap]

AllLists == [AdditionalSectionKey -> {"missing", "empty", "items"}]

ListsOf(f) ==
    [key \in AdditionalSectionKey |->
        IF f[key] = "missing" THEN None
        ELSE IF f[key] = "empty" THEN Some(<<>>)
        ELSE Some(SampleItems(key))]

FullLists == [key \in AdditionalSectionKey |-> "items"]

SomeLists ==
    [key \in AdditionalSectionKey |->
        IF key \in {"technicalSkills", "awards", "creativeTools"}
        THEN "items" ELSE IF key = "languages" THEN "empty" ELSE "missing"]

ReversedOrder ==
    <<"creativeTools", "awards", "certificationsTraining", "languages",
      "technicalSkills">>

TranslatedLabels ==
    [technicalSkills |-> t("resume.additional.technicalSkills"),
     languages       |-> t("resume.sections.languages"),
     certifications  |-> t("resume.sections.certifications"),
     awards          |-> t("resume.sections.awards"),
     creativeTools   |-> t("resume.sections.creativeTools")]

TranslatedHeadings ==
    [skills         |-> t("resume.additional.technicalSkills"),
     languages      |-> t("resume.sections.languages"),
     certifications |-> t("resume.sections.certifications"),
     awards         |-> t("resume.sections.awards"),
     creativeTools  |-> t("resume.sections.creativeTools")]

\* The label props a host passes to the templates: none, the translated
\* tables, or tables with a single entry.
HostProps ==
    {[labels |-> None, headings |-> None],
     [labels |-> Some(TranslatedLabels), headings |-> Some(TranslatedHeadings)],
     [labels |-> Some([awards |-> t("resume.sections.awards")]),
      headings |-> Some([skills |-> t("resume.additional.technicalSkills")])]}

PersonalInfo(name, title, email, phone, location, website, linkedin, github) ==
    [name |-> name, title |-> title, email |-> email, phone |-> phone,
     location |-> location, website |-> website, linkedin |-> linkedin,
     github |-> github]

SampleHost == <<"a", ".", "i", "o">>

SampleEmail == <<"m", "@", "a">>

\* A personal info with a name, an email and a website.
SamplePersonalInfo ==
    PersonalInfo(Some(<<"n">>), None, Some(SampleEmail), None, None,
                 Some(SampleHost), None, None)

\* The keywords prop of HighlightedResumeView: a Set object, known by its
\* reference and its words.
KeywordSet(ref, words) == [ref |-> ref, words |-> words]

\* A HighlightedText that has not rendered yet.
Unrendered(text) ==
    [text |-> text, memo |-> None, segments |-> None, reused |-> FALSE]

SampleKeywords ==
    KeywordSet(0, {<<"awards", "1">>, <<"languages">>, <<"a">>})

InitResume(additional, visible, props, personal, keywordSet, text, section) ==
    /\ custom = section
    /\ data = additional
    /\ sectionVisible = visible
    /\ additionalSectionLabels = props.labels
    /\ sectionHeadings = props.headings
    /\ view = None
    /\ last = [op |-> "none", key |-> "", arg |-> None, emitted |-> FALSE,
               prev |-> additional, received |-> additional]
    /\ edits = 0
    /\ personalInfo = personal
    /\ contact = None
    /\ keywords = keywordSet
    /\ highlighted = Unrendered(text)

InitState(additional, visible, props, personal, keywordSet, text) ==
    InitResume(additional, visible, props, personal, keywordSet, text,
               NoCustomSection)

InitAll(additional, visible, props, personal) ==
    InitState(additional, visible, props, personal, SampleKeywords, <<>>)

InitWith(additional, visible, props) ==
    InitAll(additional, visible, props, SamplePersonalInfo)

\* What the user can type into a personal-info input.
PersonalInputs == {<<>>, HttpsScheme \o SampleHost}

(* A form session: the order is absent or a permutation of the five keys,  *)
(* no label is overridden and the layout values are missing.               *)
FormInputs ==
    {AdditionalInfo(ListsOf(f), order, None, None, None) :
        f \in {FullLists, SomeLists},
        order \in {None, Some(ReversedOrder)}}

Init ==
    \E additional \in FormInputs :
        InitWith(additional, Some(TRUE),
                 [labels |-> Some(TranslatedLabels),
                  headings |-> Some(TranslatedHeadings)])

Next ==
    \/ Mount
    \/ \E field \in AdditionalSectionKey, value \in TextareaInputs :
          handleArrayChange(field, value)
    \/ \E key \in AdditionalSectionKey, value \in TitleInputs :
          handleSubsectionLabelChange(key, value)
    \/ \E active \in OverIds(data),
          over \in {None} \cup {Some(id) : id \in OverIds(data)} :
          handleDragEnd(active, over)
    \/ \E percent \in RatioSliderInputs : handleColumnRatioChange(percent)
    \/ \E gap \in GapSliderInputs : handleColumnGapChange(gap)
    \/ \E field \in PersonalInfoKeys, value \in PersonalInputs :
          handleChange(field, value)

Spec == Init /\ [][Next]_vars

(* A loaded document: any AdditionalInfo the stored data may hold, with    *)
(* unknown or repeated order entries, padded labels and out-of-range       *)
(* layout values, rendered by the four renderers.                          *)
OrderEntries ==
    AdditionalSectionKey
        \cup {"additionalSectionOrder", "additionalSubsectionLabels", "hobbies"}

LoadedOrders ==
    {None, Some(ReversedOrder), Some(Append(ReversedOrder, "hobbies"))}
        \cup {Some(o) : o \in UNION {[1..n -> OrderEntries] : n \in 0..MaxOrderLen}}

LabelTexts ==
    {<<>>, <<" ">>, <<"x">>, <<"\t", "x", " ">>, <<"x", " ", "y">>}

LoadedLabels ==
    {None}
        \cup {Some(m) : m \in UNION {[S -> LabelTexts] :
                  S \in {T \in SUBSET AdditionalSectionKey : Cardinality(T) <= 2}}}

LoadedRatios == {None} \cup {Some(v) : v \in {-10, 0, 10, 24, 25, 26, 50, 74, 75, 76, 90, 400}}

LoadedGaps == {None} \cup {Some(v) : v \in {-100, 0, 49, 50, 51, 125, 249, 250, 251, 400}}

Visibilities == {None, Some(TRUE), Some(FALSE)}

\* Stored contact values: missing, empty, a bare host, a host with www., a
\* full URL, a protocol-relative URL and a host that begins with 'http'.
LoadedUrls ==
    {None, Some(<<>>), Some(SampleHost), Some(WwwDot \o SampleHost),
     Some(HttpsScheme \o SampleHost), Some(HttpScheme \o SampleHost),
     Some(SlashSlash \o SampleHost), Some(HttpText \o <<".", "i", "o">>)}

LoadedProfiles ==
    {None, Some(<<>>), Some(SampleHost), Some(HttpsScheme \o SampleHost)}

LoadedPersonalInfos ==
    {PersonalInfo(Some(<<"n">>), None, email, phone, location, website,
                  linkedin, github) :
        email \in {None, Some(<<>>), Some(SampleEmail)},
        phone \in {None, Some(<<"1">>)},
        location \in {None, Some(<<"L">>)},
        website \in LoadedUrls,
        linkedin \in LoadedProfiles,
        github \in LoadedProfiles}

InitLoaded ==
    \/ \E f \in AllLists, order \in LoadedOrders :
          InitWith(AdditionalInfo(ListsOf(f), order, None, None, None),
                   Some(TRUE), [labels |-> None, headings |-> None])
    \/ \E labels \in LoadedLabels, order \in {None, Some(ReversedOrder)},
          props \in HostProps :
          InitWith(AdditionalInfo(ListsOf(FullLists), order, labels, None, None),
                   None, props)
    \/ \E ratio \in LoadedRatios, gap \in LoadedGaps, f \in {FullLists, SomeLists} :
          InitWith(AdditionalInfo(ListsOf(f), None, None, ratio, gap),
                   Some(TRUE), [labels |-> None, headings |-> None])
    \/ \E f \in AllLists, visible \in Visibilities, props \in HostProps :
          InitWith(AdditionalInfo(ListsOf(f), None, None, None, None),
                   visible, props)
    \/ \E personal \in LoadedPersonalInfos :
          InitAll(AdditionalInfo(ListsOf(SomeLists), None, None, None, None),
                  Some(TRUE), [labels |-> None, headings |-> None], personal)

NextLoaded == Mount

SpecLoaded == InitLoaded /\ [][NextLoaded]_vars
(* --------------------------- HighlightedText -------------------------- *)

\* Everything but the keywords prop and the HighlightedText instance.
FormVars ==
    <<data, sectionVisible, additionalSectionLabels, sectionHeadings, view,
      last, edits, personalInfo, contact, custom>>

\* Mutant: the dependency list holds the text only.
UseMemoTextOnly(memo, text, keywordSet) ==
    IF memo # None /\ memo[1].text = text
    THEN memo[1]
    ELSE [text |-> text, ref |-> keywordSet.ref,
          value |-> segmentTextByKeywords(text, keywordSet.words)]

\* useMemo(() => segmentTextByKeywords(text, keywords), [text, keywords]):
\* the stored value is kept while text is the same string and keywords the
\* same Set object.
UseMemo(memo, text, keywordSet) ==
    IF memo # None /\ memo[1].text = text /\ memo[1].ref = keywordSet.ref
    THEN memo[1]
    ELSE [text |-> text, ref |-> keywordSet.ref,
          value |-> segmentTextByKeywords(text, keywordSet.words)]

\* A render of HighlightedText with the props the parent passes.
RenderHighlightedText(text, keywordSet) ==
    LET memo == UseMemo(highlighted.memo, text, keywordSet)
    IN  /\ highlighted' = [text |-> text, memo |-> Some(memo),
                           segments |-> Some(memo.value),
                           reused |-> Some(memo) = highlighted.memo]
        /\ keywords' = keywordSet
        /\ UNCHANGED FormVars

HighlightedTextMount ==
    /\ highlighted.segments = None
    /\ RenderHighlightedText(highlighted.text, keywords)

\* The parent passes another text.
ChangeText(text) ==
    /\ highlighted.segments # None
    /\ text # highlighted.text
    /\ RenderHighlightedText(text, keywords)

\* The parent passes a new Set, with the same words or with others.
ChangeKeywords(words) ==
    /\ highlighted.segments # None
    /\ keywords.ref < MaxKeywordSets
    /\ RenderHighlightedText(highlighted.text,
                             KeywordSet(keywords.ref + 1, words))

\* The parent renders again with the same props.
Rerender ==
    /\ highlighted.segments # None
    /\ RenderHighlightedText(highlighted.text, keywords)

\* The texts and keyword sets the segmenter is applied to.
SegmenterAlphabet == {"a", "B", " "}

SegmenterTexts ==
    UNION {[1..n -> SegmenterAlphabet] : n \in 0..MaxTextLen}

KeywordPool ==
    {<<"a">>, <<"a", "b">>, <<"a", " ", "b">>, <<"b", " ", "a">>}

SegmenterKeywordSets == SUBSET KeywordPool

MachineLearningEngineerText ==
    <<"m", "a", "c", "h", "i", "n", "e", " ", "l", "e", "a", "r", "n", "i",
      "n", "g", " ", "e", "n", "g", "i", "n", "e", "e", "r">>

MachineText ==
    <<"m", "a", "c", "h", "i", "n", "e">>

MachineLearningText ==
    <<"m", "a", "c", "h", "i", "n", "e", " ", "l", "e", "a", "r", "n", "i",
      "n", "g">>

JavaIsNotJavaScriptText ==
    <<"J", "a", "v", "a", " ", "i", "s", " ", "n", "o", "t", " ", "J", "a",
      "v", "a", "S", "c", "r", "i", "p", "t">>

JavaText ==
    <<"j", "a", "v", "a">>

PythonDeveloperText ==
    <<"P", "y", "t", "h", "o", "n", " ", "d", "e", "v", "e", "l", "o", "p",
      "e", "r">>

PythonText ==
    <<"p", "y", "t", "h", "o", "n">>

PartyText ==
    <<"a", " ", "p", "a", "r", "t", "y">>

ArtText ==
    <<"a", "r", "t">>

\* The examples of the segmenter's contract.
ExampleInputs ==
    {[text |-> MachineLearningEngineerText,
      words |-> {MachineText, MachineLearningText}],
     [text |-> JavaIsNotJavaScriptText, words |-> {JavaText}],
     [text |-> PythonDeveloperText, words |-> {PythonText}],
     [text |-> PartyText, words |-> {ArtText}]}

SegmenterInputs ==
    ExampleInputs
        \cup {[text |-> text, words |-> words] :
                 text \in SegmenterTexts, words \in SegmenterKeywordSets}

SampleAdditional == AdditionalInfo(ListsOf(SomeLists), None, None, None, None)

InitHighlighted(text, words) ==
    InitState(SampleAdditional, Some(TRUE),
              [labels |-> None, headings |-> None], SamplePersonalInfo,
              KeywordSet(0, words), text)

(* The segmenter applied to a text and a keyword set by the first render   *)
(* of a HighlightedText.                                                   *)
InitSegmenter ==
    \E input \in SegmenterInputs : InitHighlighted(input.text, input.words)

NextSegmenter == HighlightedTextMount

SpecSegmenter == InitSegmenter /\ [][NextSegmenter]_vars

\* The props a parent passes to one HighlightedText over its life.
PropTexts ==
    {<<>>, <<"a">>, <<"B">>, <<"a", " ", "B">>, <<"a", "B">>}

PropKeywordSets == {{}, {<<"a">>}, {<<"b">>}, {<<"a">>, <<"a", " ", "b">>}}

InitHighlight ==
    \E text \in PropTexts, words \in PropKeywordSets :
        InitHighlighted(text, words)

NextHighlight ==
    \/ HighlightedTextMount
    \/ \E text \in PropTexts : ChangeText(text)
    \/ \E words \in PropKeywordSets : ChangeKeywords(words)
    \/ Rerender

SpecHighlight == InitHighlight /\ [][NextHighlight]_vars

(* Custom sections: the section types of the metadata entry, with the     *)
(* resume holding no customSections, no entry under the key, or an entry   *)
(* with any combination of the three contents.                             *)
SectionTypes == {"text", "itemList", "stringList", "personalInfo"}

CustomTexts == {None, Some(<<>>), Some(<<" ", "\t">>), Some(<<" ", "a", " ">>)}

BareItem ==
    [id |-> "1", title |-> <<"t">>, years |-> None, subtitle |-> None,
     location |-> None, description |-> None]

FullItem ==
    [id |-> "2", title |-> <<"u">>, years |-> Some(<<"2", "0">>),
     subtitle |-> Some(<<"s">>), location |-> Some(<<>>),
     description |-> Some(<< <<"d">> >>)]

CustomItems == {None, Some(<<>>), Some(<<BareItem>>), Some(<<FullItem, BareItem>>)}

CustomStrings == {None, Some(<<>>), Some(<< <<>> >>), Some(<< <<"x">>, <<"y">> >>)}

CustomSections ==
    [text : CustomTexts, items : CustomItems, strings : CustomStrings]

CustomSectionMaps ==
    {None, Some(<<>>)}
    \cup {Some([k \in {"other"} |-> section]) :
             section \in {[text |-> Some(<<"a">>), items |-> Some(<<BareItem>>),
                           strings |-> Some(<< <<"x">> >>)]}}
    \cup {Some([k \in {"custom"} |-> section]) : section \in CustomSections}

InitCustom ==
    \E sectionType \in SectionTypes, customSections \in CustomSectionMaps :
        InitResume(SampleAdditional, Some(TRUE),
                   [labels |-> None, headings |-> None], SamplePersonalInfo,
                   SampleKeywords, <<>>,
                   CustomSectionProps([key |-> "custom",
                                       sectionType |-> sectionType,
                                       displayName |-> <<"Custom">>],
                                      customSections))

NextCustom == RenderCustomSection

SpecCustom == InitCustom /\ [][NextCustom]_vars

(* ------------------------------- claims ------------------------------- *)

\* The order a renderer resolves: the stored one, or the fixed default.
ResolvedOrder ==
    IF data.additionalSectionOrder # None
    THEN data.additionalSectionOrder[1]
    ELSE <<"technicalSkills", "languages", "certificationsTraining", "awards",
           "creativeTools">>

\* The blocks of the last render: highlight view, Modern, Swiss, two-column.
Blocks ==
    IF view = None THEN <<>>
    ELSE <<view[1].highlight, view[1].modern, view[1].swiss, view[1].twoColumn>>

RenderedLayouts ==
    {Blocks[i][1] : i \in {j \in 1..Len(Blocks) : Blocks[j] # None}}

AllRendered == view # None /\ \A i \in 1..Len(Blocks) : Blocks[i] # None

RowsOfLayout(L) == L.leftRows \o L.rightRows

RowsOfBlock(block) == IF block = None THEN <<>> ELSE RowsOfLayout(block[1])

KeysOf(rows) == [i \in 1..Len(rows) |-> rows[i].key]

HasItems(key) ==
    /\ key \in AdditionalSectionKey
    /\ data[key] # None
    /\ Len(data[key][1]) > 0

\* The entries of the resolved order whose value is a non-empty list.
VisibleEntries ==
    SelectSeq(ResolvedOrder, LAMBDA key : Len(ItemsOf(data, key)) > 0)

\* The highlight view always shows the block; the templates show it when
\* the section is visible.
Shown(i) == i = 1 \/ sectionVisible # Some(FALSE)

\* C1: in every rendered layout the left column is the first ceil(n/2) of
\* the n visible rows and the right column the rest, in order, so the left
\* column has as many rows as the right or one more.
C1_ColumnSplit ==
    \A L \in RenderedLayouts :
        LET rows == VisibleEntries
            n == Len(rows)
            half == (n + 1) \div 2
        IN  /\ KeysOf(L.leftRows) = SubSeq(rows, 1, half)
            /\ KeysOf(L.rightRows) = SubSeq(rows, half + 1, n)
            /\ KeysOf(L.leftRows) \o KeysOf(L.rightRows) = rows
            /\ Len(L.leftRows) - Len(L.rightRows) \in {0, 1}

C1_Witness ==
    /\ AllRendered
    /\ Len(VisibleEntries) = 5
    /\ \A L \in RenderedLayouts : Len(L.leftRows) = 3 /\ Len(L.rightRows) = 2

\* C2: a category has a row exactly when it is listed in the resolved order
\* and its list is non-empty; an empty or missing list gives no row and is
\* not counted in n.
C2_RowFiltering ==
    view # None =>
        \A i \in 1..Len(Blocks) :
            Shown(i) =>
                LET keys == KeysOf(RowsOfBlock(Blocks[i]))
                IN  /\ \A key \in AdditionalSectionKey :
                          (\E j \in 1..Len(keys) : keys[j] = key)
                              <=> (/\ \E j \in 1..Len(ResolvedOrder) :
                                         ResolvedOrder[j] = key
                                   /\ HasItems(key))
                    /\ \A j \in 1..Len(keys) :
                          keys[j] \in AdditionalSectionKey => HasItems(keys[j])
                    /\ Len(keys) =
                          Cardinality({j \in 1..Len(ResolvedOrder) :
                                          Len(ItemsOf(data, ResolvedOrder[j])) > 0})

C2_Witness ==
    /\ AllRendered
    /\ data.additionalSectionOrder = None
    /\ HasItems("technicalSkills")
    /\ data.languages = Some(<<>>)
    /\ data.awards = None
    /\ \A L \in RenderedLayouts :
          \A j \in 1..Len(RowsOfLayout(L)) :
              RowsOfLayout(L)[j].key \notin {"languages", "awards"}

\* C3: the rows of the known categories, left column first, follow the
\* stored order when there is one and the fixed order technicalSkills,
\* languages, certificationsTraining, awards, creativeTools otherwise; with
\* order [awards, technicalSkills] and both non-empty, awards comes first.
C3_OrderResolution ==
    \A L \in RenderedLayouts :
        /\ SelectSeq(KeysOf(RowsOfLayout(L)),
                     LAMBDA key : key \in AdditionalSectionKey)
              = SelectSeq(ResolvedOrder, HasItems)
        /\ (/\ data.additionalSectionOrder = Some(<<"awards", "technicalSkills">>)
            /\ HasItems("awards")
            /\ HasItems("technicalSkills"))
              => KeysOf(RowsOfLayout(L)) = <<"awards", "technicalSkills">>

C3_Witness ==
    /\ AllRendered
    /\ data.additionalSectionOrder = Some(<<"awards", "technicalSkills">>)
    /\ HasItems("awards")
    /\ HasItems("technicalSkills")
    /\ HasItems("languages")
    /\ \A L \in RenderedLayouts :
          /\ KeysOf(L.leftRows) = <<"awards">>
          /\ KeysOf(L.rightRows) = <<"technicalSkills">>

\* C4: the left fraction is within [0.25, 0.75], is 0.5 when the ratio is
\* missing, 0.75 for 0.9 and 0.25 for 0.1, the right fraction is 1 minus
\* the left; the gap is within [0.5, 2.5] and is 1.25 when missing.
C4_LayoutParameters ==
    view # None =>
        /\ \A L \in RenderedLayouts :
              /\ L.leftRatio >= 25 /\ L.leftRatio <= 75
              /\ data.skillsLeftColumnRatio = None => L.leftRatio = 50
              /\ data.skillsLeftColumnRatio = Some(90) => L.leftRatio = 75
              /\ data.skillsLeftColumnRatio = Some(10) => L.leftRatio = 25
              /\ L.rightRatio = 100 - L.leftRatio
              /\ L.gapRem >= 50 /\ L.gapRem <= 250
              /\ data.skillsColumnGapRem = None => L.gapRem = 125
        /\ view[1].form.leftRatioPercent >= 25
        /\ view[1].form.leftRatioPercent <= 75
        /\ view[1].form.gapRem >= 50
        /\ view[1].form.gapRem <= 250

C4_Witness ==
    /\ AllRendered
    /\ data.skillsLeftColumnRatio = Some(90)
    /\ data.skillsColumnGapRem = Some(400)
    /\ \A L \in RenderedLayouts : L.leftRatio = 75 /\ L.gapRem = 250

\* The default label the caller of renderer i supplies for a category.
CallerDefault(i, key) ==
    IF i = 1 THEN HighlightDefaultLabels[key]
    ELSE IF i = 2
    THEN ModernMergedLabels(additionalSectionLabels)[
             IF key = "certificationsTraining" THEN "certifications" ELSE key]
    ELSE IF i = 3
    THEN SingleColumnMergedLabels(additionalSectionLabels)[
             IF key = "certificationsTraining" THEN "certifications" ELSE key]
    ELSE TwoColumnHeadingFallbacks(sectionHeadings)[
             IF key = "certificationsTraining" THEN "certifications"
             ELSE IF key = "technicalSkills" THEN "skills" ELSE key]

OverrideOf(key) ==
    IF data.additionalSubsectionLabels = None THEN None
    ELSE IF key \notin DOMAIN data.additionalSubsectionLabels[1] THEN None
    ELSE Some(data.additionalSubsectionLabels[1][key])

AllWhitespace(raw) == \A j \in 1..Len(raw) : raw[j] \in Whitespace

\* label is raw without its leading and trailing whitespace.
IsTrimOf(label, raw) ==
    \E a \in 1..Len(raw) :
        \E b \in a..Len(raw) :
            /\ label = SubSeq(raw, a, b)
            /\ raw[a] \notin Whitespace
            /\ raw[b] \notin Whitespace
            /\ \A j \in 1..(a - 1) : raw[j] \in Whitespace
            /\ \A j \in (b + 1)..Len(raw) : raw[j] \in Whitespace

\* C5: a row's label is the override without its surrounding whitespace
\* when that is non-empty, and the caller's default label when the override
\* is missing, empty or whitespace only.
C5_LabelResolution ==
    \A i \in 1..Len(Blocks) :
        \A j \in 1..Len(RowsOfBlock(Blocks[i])) :
            LET row == RowsOfBlock(Blocks[i])[j]
                raw == OverrideOf(row.key)
            IN  row.key \in AdditionalSectionKey =>
                    /\ row.label # None
                    /\ IF raw = None \/ AllWhitespace(raw[1])
                       THEN row.label[1] = CallerDefault(i, row.key)
                       ELSE IsTrimOf(row.label[1], raw[1])

C5_Witness ==
    /\ AllRendered
    /\ OverrideOf("awards") = Some(<<" ">>)
    /\ OverrideOf("technicalSkills") = Some(<<"\t", "x", " ">>)
    /\ \A i \in 1..Len(Blocks) :
          \E j, k \in 1..Len(RowsOfBlock(Blocks[i])) :
              /\ RowsOfBlock(Blocks[i])[j].key = "technicalSkills"
              /\ RowsOfBlock(Blocks[i])[j].label = Some(<<"x">>)
              /\ RowsOfBlock(Blocks[i])[k].key = "awards"
              /\ RowsOfBlock(Blocks[i])[k].label = Some(CallerDefault(i, "awards"))

SameDefaults ==
    \A key \in AdditionalSectionKey :
        \A i \in 2..4 : CallerDefault(i, key) = CallerDefault(1, key)

IsPermutationOfKeys(order) ==
    /\ Len(order) = Cardinality(AdditionalSectionKey)
    /\ {order[i] : i \in 1..Len(order)} = AdditionalSectionKey

\* C7: in a form session that starts with the order absent or a permutation
\* of the five keys, the order stays absent or a permutation of exactly the
\* five keys after every form operation.
C7_PermutationInvariant ==
    \/ data.additionalSectionOrder = None
    \/ IsPermutationOfKeys(data.additionalSectionOrder[1])

C7_Witness ==
    /\ edits = 2
    /\ last.op = "handleDragEnd"
    /\ last.emitted
    /\ last.prev.additionalSectionOrder # None
    /\ data.additionalSectionOrder # last.prev.additionalSectionOrder
    /\ IsPermutationOfKeys(data.additionalSectionOrder[1])

Without(order, key) == SelectSeq(order, LAMBDA entry : entry # key)

OrderBefore ==
    IF last.prev.additionalSectionOrder # None
    THEN last.prev.additionalSectionOrder[1]
    ELSE <<"technicalSkills", "languages", "certificationsTraining", "awards",
           "creativeTools">>

\* C8: a drag of the key at index i onto a different key at index j emits
\* an order of the same length with the dragged key at index j and all
\* other keys in their previous relative order.
C8_DragReorder ==
    (/\ last.op = "handleDragEnd"
     /\ last.arg # None
     /\ last.arg # Some(last.key)
     /\ \E i \in 1..Len(OrderBefore) : OrderBefore[i] = last.key
     /\ \E j \in 1..Len(OrderBefore) : OrderBefore[j] = last.arg[1])
        => /\ last.emitted
           /\ data.additionalSectionOrder # None
           /\ LET now == data.additionalSectionOrder[1]
              IN  /\ Len(now) = Len(OrderBefore)
                  /\ \A j \in 1..Len(OrderBefore) :
                        OrderBefore[j] = last.arg[1] => now[j] = last.key
                  /\ Without(now, last.key) = Without(OrderBefore, last.key)

C8_Witness ==
    /\ last.op = "handleDragEnd"
    /\ last.emitted
    /\ \E i, j \in 1..Len(OrderBefore) :
          /\ OrderBefore[i] = last.key
          /\ OrderBefore[j] = last.arg[1]
          /\ j >= i + 2
          /\ data.additionalSectionOrder[1][j] = last.key

\* C9: an order entry that is not one of the five category keys gives no
\* row in any renderer, and the rows of the known keys are as without it.
C9_UnknownKeysIgnored ==
    \A i \in 1..Len(Blocks) :
        Shown(i) =>
            KeysOf(RowsOfBlock(Blocks[i])) = SelectSeq(ResolvedOrder, HasItems)

Occurrences(order, key) ==
    Cardinality({j \in 1..Len(order) : order[j] = key})

\* C10: with a stored order, a category key that does not occur in it is
\* rendered by none of the four renderers, and a key that occurs once gives
\* at most one row.
C10_AbsentKeysNotRendered ==
    (view # None /\ data.additionalSectionOrder # None) =>
        \A key \in AdditionalSectionKey :
            /\ Occurrences(ResolvedOrder, key) = 0 =>
                  /\ \A i \in 1..Len(Blocks) :
                        Occurrences(KeysOf(RowsOfBlock(Blocks[i])), key) = 0
                  /\ key = "certificationsTraining" =>
                        view[1].mainCertifications = <<>>
            /\ Occurrences(ResolvedOrder, key) = 1 =>
                  \A i \in 1..Len(Blocks) :
                      Occurrences(KeysOf(RowsOfBlock(Blocks[i])), key) <= 1

\* The sidebar and template blocks alone do honour the stored order.
C10_BlocksOnly ==
    (view # None /\ data.additionalSectionOrder # None) =>
        \A key \in AdditionalSectionKey :
            \A i \in 1..Len(Blocks) :
                Occurrences(KeysOf(RowsOfBlock(Blocks[i])), key)
                    <= (IF HasItems(key) THEN Occurrences(ResolvedOrder, key) ELSE 0)

NoCategoryHasItems == \A key \in AdditionalSectionKey : ~HasItems(key)

\* C11: when none of the five categories has an item, every renderer
\* outputs nothing for the additional block: no block in the highlight
\* view or in a template, and no certifications list in the main column.
C11_EmptyResult ==
    (view # None /\ NoCategoryHasItems) =>
        /\ \A i \in 1..Len(Blocks) : Blocks[i] = None
        /\ view[1].mainCertifications = <<>>

\* The empty result does hold when every entry of the resolved order is a
\* category key or names no list of the object.
C11_CategoryOrders ==
    (/\ view # None
     /\ NoCategoryHasItems
     /\ \A j \in 1..Len(ResolvedOrder) :
           ResolvedOrder[j] # "additionalSectionOrder") =>
        /\ \A i \in 1..Len(Blocks) : Blocks[i] = None
        /\ view[1].mainCertifications = <<>>

RECURSIVE CommaSeparated(_)
CommaSeparated(items) ==
    IF items = <<>> THEN <<>>
    ELSE IF Len(items) = 1 THEN Head(items)
    ELSE (Head(items) \o <<",", " ">>) \o CommaSeparated(Tail(items))

\* The rows each renderer shows in the last render.
ShownRows ==
    IF view = None THEN <<>>
    ELSE <<view[1].shown.highlight, view[1].shown.modern, view[1].shown.swiss,
           view[1].shown.twoColumn>>

\* C13: the text of every rendered row of a category is that category's
\* items in the list's own order, joined by ', ': none is dropped,
\* duplicated or moved.
C13_ItemOrderPreserved ==
    \A r \in 1..Len(ShownRows) :
        \A i \in 1..Len(ShownRows[r]) :
            LET row == ShownRows[r][i]
            IN  row.key \in AdditionalSectionKey =>
                    /\ data[row.key] # None
                    /\ row.text = CommaSeparated(data[row.key][1])

\* The textarea of a category has been edited to two items, and the four
\* renderers show its row.
C13_Witness ==
    /\ last.op = "handleArrayChange"
    /\ Len(data[last.key][1]) = 2
    /\ data[last.key][1][1] # data[last.key][1][2]
    /\ \A r \in 1..Len(ShownRows) :
          \E i \in 1..Len(ShownRows[r]) : ShownRows[r][i].key = last.key

\* The segments the HighlightedText shows, once it has rendered.
ShownSegments == IF highlighted.segments = None THEN <<>> ELSE highlighted.segments[1]

RECURSIVE ConcatTexts(_)
ConcatTexts(segments) ==
    IF segments = <<>> THEN <<>>
    ELSE Head(segments).text \o ConcatTexts(Tail(segments))

\* The position in the text of the first character of segment i.
StartOf(segments, i) == Len(ConcatTexts(SubSeq(segments, 1, i - 1))) + 1

\* C14: the segments are contiguous and gap-free: their texts, put together
\* in order, are the input text, character for character in its own
\* casing.
C14_Reconstruction ==
    highlighted.segments # None =>
        /\ Len(ShownSegments) >= 1
        /\ ConcatTexts(ShownSegments) = highlighted.text
        /\ \A i \in 1..Len(ShownSegments) :
              ShownSegments[i].text =
                  SubSeq(highlighted.text, StartOf(ShownSegments, i),
                         StartOf(ShownSegments, i + 1) - 1)

\* A text split into several segments, one of them a match in capitals.
C14_Witness ==
    /\ Len(ShownSegments) >= 2
    /\ \E i \in 1..Len(ShownSegments) :
          /\ ShownSegments[i].isMatch
          /\ ToLowerCase(ShownSegments[i].text) # ShownSegments[i].text

\* keyword is at position p of the text, whatever surrounds it.
CoversAt(keyword, p) ==
    /\ Len(keyword) > 0
    /\ p + Len(keyword) - 1 <= Len(highlighted.text)
    /\ ToLowerCase(SubSeq(highlighted.text, p, p + Len(keyword) - 1))
          = ToLowerCase(keyword)

BoundaryBefore(p) == p = 1 \/ ~IsAlphanumeric(highlighted.text[p - 1])

BoundaryAfter(q) ==
    q = Len(highlighted.text) \/ ~IsAlphanumeric(highlighted.text[q + 1])

\* keyword matches at position p: it is there, between word boundaries.
KeywordAt(keyword, p) ==
    /\ CoversAt(keyword, p)
    /\ BoundaryBefore(p)
    /\ BoundaryAfter(p + Len(keyword) - 1)

\* C15: a matched segment is the longest keyword matching where it starts,
\* no keyword matches at a position left in an unmatched segment (matches
\* are taken left to right and the scan resumes right after each), and the
\* matched spans do not overlap; 'machine learning engineer' with machine
\* and machine learning gives the one match 'machine learning'.
C15_LongestMatch ==
    highlighted.segments # None =>
        /\ \A i \in 1..Len(ShownSegments) :
              LET p == StartOf(ShownSegments, i)
                  n == Len(ShownSegments[i].text)
              IN  IF ShownSegments[i].isMatch
                  THEN /\ \E k \in keywords.words :
                             Len(k) = n /\ KeywordAt(k, p)
                       /\ \A k \in keywords.words :
                             KeywordAt(k, p) => Len(k) <= n
                  ELSE \A q \in p..(p + n - 1) :
                           \A k \in keywords.words : ~KeywordAt(k, q)
        /\ ConcatTexts(ShownSegments) = highlighted.text
        /\ (/\ highlighted.text = MachineLearningEngineerText
            /\ keywords.words = {MachineText, MachineLearningText}) =>
              /\ Len(ShownSegments) = 2
              /\ ShownSegments[1] = Segment(MachineLearningText, TRUE)
              /\ ~ShownSegments[2].isMatch

\* Two keywords match at the start of the text and the longer one is shown.
C15_Witness ==
    /\ highlighted.text = MachineLearningEngineerText
    /\ keywords.words = {MachineText, MachineLearningText}
    /\ Len(ShownSegments) = 2
    /\ ShownSegments[1].isMatch

\* C16: a matched segment equals a keyword up to case, and the characters
\* next to it in the text, if any, are not alphanumeric: java matches
\* 'Java' in 'Java is not JavaScript' but not the start of 'JavaScript',
\* and python matches 'Python'.
C16_WordBoundaryAndCase ==
    highlighted.segments # None =>
        /\ \A i \in 1..Len(ShownSegments) :
              ShownSegments[i].isMatch =>
                  LET p == StartOf(ShownSegments, i)
                      q == p + Len(ShownSegments[i].text) - 1
                  IN  /\ \E k \in keywords.words :
                            ToLowerCase(ShownSegments[i].text) = ToLowerCase(k)
                      /\ BoundaryBefore(p)
                      /\ BoundaryAfter(q)
        /\ (/\ highlighted.text = JavaIsNotJavaScriptText
            /\ keywords.words = {JavaText}) =>
              /\ Len(ShownSegments) = 2
              /\ ShownSegments[1].isMatch
              /\ ShownSegments[1].text = SubSeq(JavaIsNotJavaScriptText, 1, 4)
              /\ ~ShownSegments[2].isMatch
        /\ (/\ highlighted.text = PythonDeveloperText
            /\ keywords.words = {PythonText}) =>
              /\ ShownSegments[1].isMatch
              /\ ShownSegments[1].text = SubSeq(PythonDeveloperText, 1, 6)

\* 'Java is not JavaScript' has been segmented: 'Java' is marked and the
\* rest, with 'JavaScript' in it, is not.
C16_Witness ==
    /\ highlighted.text = JavaIsNotJavaScriptText
    /\ keywords.words = {JavaText}
    /\ Len(ShownSegments) = 2
    /\ ShownSegments[1].isMatch
    /\ ToLowerCase(ShownSegments[1].text) = JavaText
    /\ ShownSegments[1].text # JavaText

\* C17: with no keyword, or with an empty text, the result is one segment
\* holding the whole input, not a match.
C17_NoKeywordIdentity ==
    (highlighted.segments # None
     /\ (keywords.words = {} \/ highlighted.text = <<>>)) =>
        ShownSegments = <<Segment(highlighted.text, FALSE)>>

\* A text of several words has been segmented with no keyword.
C17_Witness ==
    /\ highlighted.segments # None
    /\ keywords.words = {}
    /\ Len(highlighted.text) >= 3
    /\ \E i \in 1..Len(highlighted.text) : highlighted.text[i] = " "
    /\ Len(ShownSegments) = 1

\* An empty text has been segmented with keywords.
C17_EmptyText ==
    /\ highlighted.segments # None
    /\ keywords.words # {}
    /\ highlighted.text = <<>>
    /\ Len(ShownSegments) = 1

\* C18: after any sequence of renders with changed or unchanged props, the
\* segments shown are the segmenter's result for the current text and
\* keywords; the stored result is the one for the current pair, and a
\* render reuses it only when the text and the keyword set are the ones of
\* the render before.
C18_SegmentsNeverStale ==
    /\ [](highlighted.segments # None =>
            /\ ShownSegments
                  = segmentTextByKeywords(highlighted.text, keywords.words)
            /\ highlighted.memo
                  = Some([text |-> highlighted.text, ref |-> keywords.ref,
                          value |-> ShownSegments]))
    /\ [][highlighted'.reused =>
            /\ highlighted'.text = highlighted.text
            /\ keywords' = keywords
            /\ highlighted'.segments = highlighted.segments]_vars

\* The keywords were replaced by a set that matches in the text, and a
\* later render with the same props reused the stored segments.
C18_Witness ==
    /\ keywords.ref > 0
    /\ highlighted.reused
    /\ Len(ShownSegments) >= 2
    /\ \E i \in 1..Len(ShownSegments) : ShownSegments[i].isMatch

\* How many times the two-column template renders the items of a category
\* in its main column and in its sidebar.
TimesInMain(key) ==
    IF key = "certificationsTraining" /\ view[1].mainCertifications # <<>>
    THEN 1 ELSE 0

TimesInSidebar(key) ==
    Occurrences(KeysOf(RowsOfBlock(view[1].twoColumn)), key)

\* C19: in the Modern two-column template, with the additional section
\* visible and every category in the order, each non-empty category is
\* rendered exactly once: Certifications/Training in the main column, the
\* other four in the sidebar, and none in both.
C19_TwoColumnExactlyOnce ==
    (/\ view # None
     /\ IsSectionVisible(sectionVisible)
     /\ IsPermutationOfKeys(ResolvedOrder)) =>
        \A key \in AdditionalSectionKey :
            HasItems(key) =>
                /\ TimesInMain(key) + TimesInSidebar(key) = 1
                /\ key = "certificationsTraining" => TimesInMain(key) = 1
                /\ key # "certificationsTraining" => TimesInSidebar(key) = 1

\* The four categories other than Certifications/Training are rendered
\* exactly once, in the sidebar.
C19_OtherCategoriesOnce ==
    (/\ view # None
     /\ IsSectionVisible(sectionVisible)
     /\ IsPermutationOfKeys(ResolvedOrder)) =>
        \A key \in AdditionalSectionKey \ {"certificationsTraining"} :
            HasItems(key) =>
                TimesInMain(key) = 0 /\ TimesInSidebar(key) = 1

\* The contact lines of the last render: the headers of Modern, Swiss and
\* two-column, and the links block of the two-column sidebar.
ContactLines ==
    IF contact = None THEN <<>>
    ELSE <<contact[1].modern, contact[1].swiss, contact[1].twoColumn,
           contact[1].twoColumnLinks>>

FieldOf(label) ==
    CASE label = "Email" -> "email"
      [] label = "Phone" -> "phone"
      [] label = "Location" -> "location"
      [] label = "Website" -> "website"
      [] label = "LinkedIn" -> "linkedin"
      [] label = "GitHub" -> "github"

ContactLabels == {"Email", "Phone", "Location", "Website", "LinkedIn", "GitHub"}

ValueOf(label) == OrElse(personalInfo[FieldOf(label)], <<>>)

DetailsOf(line, label) ==
    {i \in 1..Len(line) : line[i].label = label}

HasHttpScheme(href) == StartsWith(href, HttpScheme) \/ StartsWith(href, HttpsScheme)

\* What the claim says of one rendered detail.
DetailAsClaimed(detail) ==
    LET value == ValueOf(detail.label)
    IN  CASE detail.label \in LinkLabels ->
               /\ detail.isLink
               /\ HasHttpScheme(detail.href)
               /\ StartsWith(value, HttpText) => detail.href = value
               /\ (~StartsWith(value, HttpText) /\ ~StartsWith(value, SlashSlash))
                     => detail.href = HttpsScheme \o value
          [] detail.label = "Email" ->
               detail.isLink /\ detail.href = MailtoPrefix \o value
          [] detail.label = "Phone" ->
               detail.isLink /\ detail.href = TelPrefix \o value
          [] detail.label = "Location" ->
               ~detail.isLink /\ detail.text = value
          [] OTHER -> TRUE

\* C20: every non-empty Website, LinkedIn or GitHub value is rendered as a
\* link whose href has an http(s) scheme ('https://' prepended unless the
\* value starts with 'http' or '//', a value starting with 'http' linked
\* as is); Email and Phone are mailto: and tel: links, Location is plain
\* text, and an empty or missing value renders nothing.
C20_ContactDetailLinks ==
    contact # None =>
        \A n \in 1..Len(ContactLines) :
            /\ \A i \in 1..Len(ContactLines[n]) :
                  DetailAsClaimed(ContactLines[n][i])
            /\ \A label \in ContactLabels :
                  /\ ValueOf(label) = <<>> => DetailsOf(ContactLines[n], label) = {}
                  /\ (ValueOf(label) # <<>> /\ n <= 3) =>
                        Cardinality(DetailsOf(ContactLines[n], label)) = 1

\* The claim does hold of every value that starts with neither 'http' nor
\* '//', and of Email, Phone and Location.
C20_BareValues ==
    contact # None =>
        \A n \in 1..Len(ContactLines) :
            /\ \A i \in 1..Len(ContactLines[n]) :
                  LET detail == ContactLines[n][i]
                      value == ValueOf(detail.label)
                  IN  (detail.label \in LinkLabels
                       /\ (StartsWith(value, HttpText) \/ StartsWith(value, SlashSlash)))
                      \/ DetailAsClaimed(detail)
            /\ \A label \in ContactLabels :
                  /\ ValueOf(label) = <<>> => DetailsOf(ContactLines[n], label) = {}
                  /\ (ValueOf(label) # <<>> /\ n <= 3) =>
                        Cardinality(DetailsOf(ContactLines[n], label)) = 1

\* The header contact lines that use separators: Modern and Swiss.
SeparatedLines ==
    IF contact = None THEN <<>> ELSE <<contact[1].modern, contact[1].swiss>>

SeparatorsIn(line) == {i \in 1..Len(line) : line[i] = Separator}

DetailsIn(line) == {i \in 1..Len(line) : line[i] # Separator}

\* Every separator of the line stands between two contact details.
SeparatorsOnlyBetween(line) ==
    /\ \A i \in SeparatorsIn(line) :
          /\ i > 1 /\ i < Len(line)
          /\ line[i - 1] # Separator
          /\ line[i + 1] # Separator
    /\ Cardinality(SeparatorsIn(line))
          = (IF DetailsIn(line) = {} THEN 0
             ELSE Cardinality(DetailsIn(line)) - 1)

\* C21: in the header contact line of Modern and of Swiss a comma stands
\* only between two rendered details: the line never starts with a comma
\* and has one comma fewer than details (none when no detail is rendered).
C21_ContactSeparators ==
    \A n \in 1..Len(SeparatedLines) : SeparatorsOnlyBetween(SeparatedLines[n])

\* With an email the separators are as claimed.
C21_WithEmail ==
    Truthy(personalInfo.email) =>
        \A n \in 1..Len(SeparatedLines) :
            SeparatorsOnlyBetween(SeparatedLines[n])

IdsOf(order) == {order[i] : i \in 1..Len(order)}

\* The last handler call was a drop with no target, onto the dragged row
\* itself, or with an id that is not in the order the form showed.
InvalidDrop ==
    /\ last.op = "handleDragEnd"
    /\ \/ last.arg = None
       \/ last.key = last.arg[1]
       \/ last.key \notin IdsOf(FormOrder(last.prev))
       \/ last.arg[1] \notin IdsOf(FormOrder(last.prev))

\* C22: after a drop with no target, with equal active and over ids, or
\* with an id outside the current order, onChange was not called and the
\* AdditionalInfo is the one before the drop: an absent order is still
\* absent.
C22_DragNoOp ==
    InvalidDrop =>
        /\ ~last.emitted
        /\ data = last.prev
        /\ data.additionalSectionOrder = last.prev.additionalSectionOrder

\* A row was dropped outside the list while no order was stored.
C22_Witness ==
    /\ InvalidDrop
    /\ last.arg = Some("outside")
    /\ last.key \in AdditionalSectionKey
    /\ last.prev.additionalSectionOrder = None
    /\ data.additionalSectionOrder = None

ChangedFields(before, after) ==
    {f \in DOMAIN before \cup DOMAIN after :
        \/ f \notin DOMAIN before
        \/ f \notin DOMAIN after
        \/ before[f] # after[f]}

\* The one field each handler of the two forms writes.
FieldWritten(event) ==
    CASE event.op = "handleArrayChange"           -> event.key
      [] event.op = "handleSubsectionLabelChange" -> "additionalSubsectionLabels"
      [] event.op = "handleDragEnd"               -> "additionalSectionOrder"
      [] event.op = "handleColumnRatioChange"     -> "skillsLeftColumnRatio"
      [] event.op = "handleColumnGapChange"       -> "skillsColumnGapRem"
      [] event.op = "handleChange"                -> event.key
      [] OTHER                                    -> "none"

\* C23: every edit changes at most the one field of its handler.  The
\* handlers of AdditionalForm leave every other field of the AdditionalInfo
\* and the whole personal info as they were; PersonalInfoForm.handleChange
\* leaves every field but the named one, and the whole AdditionalInfo, as
\* they were.
C23_FrameEffect ==
    [][edits' = edits + 1 =>
          IF last'.op = "handleChange"
          THEN /\ ChangedFields(personalInfo, personalInfo') \subseteq {FieldWritten(last')}
               /\ FieldWritten(last') \in PersonalInfoKeys
               /\ data' = data
          ELSE /\ ChangedFields(data, data') \subseteq {FieldWritten(last')}
               /\ FieldWritten(last') \in DOMAIN data
               /\ personalInfo' = personalInfo]_vars

\* A category list was edited while other fields held values, and they
\* still hold them.
C23_Witness ==
    /\ last.op = "handleArrayChange"
    /\ data[last.key] # last.prev[last.key]
    /\ \E f \in DOMAIN data \ {last.key} : data[f] # None /\ data[f] = last.prev[f]
    /\ ChangedFields(last.prev, data) = {last.key}

\* The lines of a text: the text cut at every line feed.
LineStarts(text) == {1} \cup {i + 1 : i \in {j \in 1..Len(text) : text[j] = "\n"}}

LineAt(text, start) ==
    LET ends == {j \in start..Len(text) : text[j] = "\n"}
        stop == IF ends = {} THEN Len(text) + 1
                ELSE CHOOSE j \in ends : \A k \in ends : j <= k
    IN  SubSeq(text, start, stop - 1)

IsBlank(line) == \A i \in 1..Len(line) : line[i] \in {" ", "\t", "\n", "\r"}

\* The starts of the non-blank lines of a text, in rising order.
NonBlankStarts(text) == {s \in LineStarts(text) : ~IsBlank(LineAt(text, s))}

NthOf(set, n) == CHOOSE x \in set : Cardinality({y \in set : y <= x}) = n

\* The list the form stored for the category it edited last.
StoredList == OrElse(data[last.key], <<>>)

\* C24: after handleArrayChange the stored list is exactly the non-blank
\* lines of the typed text, in their order and unmodified; it holds no
\* blank entry; and parsing the text formatArray shows for it (the value of
\* the category's textarea) gives the same list again.
C24_ParseStoresNonBlankLines ==
    last.op = "handleArrayChange" =>
        LET text == last.arg[1]
            starts == NonBlankStarts(text)
        IN  /\ data[last.key] # None
            /\ Len(StoredList) = Cardinality(starts)
            /\ \A n \in 1..Len(StoredList) :
                  StoredList[n] = LineAt(text, NthOf(starts, n))
            /\ \A n \in 1..Len(StoredList) : ~IsBlank(StoredList[n])
            /\ view[1].form.value[last.key] = formatArray(data[last.key])
            /\ ParseItems(view[1].form.value[last.key]) = StoredList

\* A text with a blank line between two lines, one of them ending in a
\* space, was typed: two lines were stored, the space kept.
C24_Witness ==
    /\ last.op = "handleArrayChange"
    /\ Len(last.arg[1]) > 0
    /\ Cardinality(LineStarts(last.arg[1])) > Cardinality(NonBlankStarts(last.arg[1]))
    /\ Len(StoredList) = 2
    /\ \E n \in 1..Len(StoredList) : Trim(StoredList[n]) # StoredList[n]
    /\ ParseItems(formatArray(data[last.key])) = StoredList

\* An emptied textarea stores the empty list, shown as the empty text.
C24_EmptyText ==
    (last.op = "handleArrayChange" /\ last.arg = Some(<<>>)) =>
        /\ data[last.key] = Some(<<>>)
        /\ view[1].form.value[last.key] = <<>>

\* The override map is absent, or has a key and no blank value.
WellFormedOverrides(labels) ==
    \/ labels = None
    \/ /\ DOMAIN labels[1] # {}
       /\ DOMAIN labels[1] \subseteq AdditionalSectionKey
       /\ \A k \in DOMAIN labels[1] : ~IsBlank(labels[1][k])

\* C25: starting with no overrides, additionalSubsectionLabels is always
\* undefined or a map with at least one key and no empty or whitespace-only
\* value; a title of only whitespace removes its key, any other title is
\* stored as typed, and removing the last override leaves undefined.
C25_OverridesWellFormed ==
    /\ WellFormedOverrides(data.additionalSubsectionLabels)
    /\ last.op = "handleSubsectionLabelChange" =>
          LET before == OrElse(last.prev.additionalSubsectionLabels, <<>>)
              after == OrElse(data.additionalSubsectionLabels, <<>>)
          IN  /\ IF IsBlank(last.arg[1])
                 THEN DOMAIN after = DOMAIN before \ {last.key}
                 ELSE /\ DOMAIN after = DOMAIN before \cup {last.key}
                      /\ after[last.key] = last.arg[1]
              /\ \A k \in DOMAIN after \ {last.key} : after[k] = before[k]
              /\ DOMAIN after = {} => data.additionalSubsectionLabels = None

\* The only override was blanked and the map is undefined again.
C25_Witness ==
    /\ last.op = "handleSubsectionLabelChange"
    /\ last.arg[1] # <<>>
    /\ IsBlank(last.arg[1])
    /\ last.prev.additionalSubsectionLabels # None
    /\ DOMAIN last.prev.additionalSubsectionLabels[1] = {last.key}
    /\ data.additionalSubsectionLabels = None

Dragged(event) == event.op = "handleDragEnd" /\ event.emitted

\* C27: a drag is undone by dragging the same key back.  After the key at
\* position i of an order without duplicates was dragged onto the key at
\* another position j, dragging that key onto the key now at position i
\* gives the order before the first drag.
C27_DragReversible ==
    [][LET before == FormOrder(last.prev)
           i == IndexOf(before, last.key)
       IN  (/\ Dragged(last)
            /\ Dragged(last')
            /\ Cardinality(IdsOf(before)) = Len(before)
            /\ last'.key = last.key
            /\ last'.arg = Some(FormOrder(data)[i]))
           => /\ data'.additionalSectionOrder = Some(before)
              /\ FormOrder(last'.prev) = FormOrder(data)
              /\ FormOrder(data) # before]_vars

\* Two drags gave the default order back: the second moved its key over
\* at least one other row, so the first, from the default order, can only
\* have moved that same key the other way.
C27_Witness ==
    /\ Dragged(last)
    /\ edits = 2
    /\ data.additionalSectionOrder = Some(ADDITIONAL_FIELD_KEYS)
    /\ last.prev.additionalSectionOrder # None
    /\ LET shown == FormOrder(last.prev)
           from == IndexOf(shown, last.key)
           to == IndexOf(shown, last.arg[1])
       IN  from - to >= 2 \/ to - from >= 2

\* C28: in the two-column template, when the 'additional' section is not
\* visible neither the Certifications/Training list of the main column nor
\* the sidebar block is rendered, whatever the lists hold; a section with
\* no metadata entry counts as visible, so both are rendered as they are
\* for an entry that says visible.
C28_TwoColumnVisibility ==
    view # None =>
        /\ sectionVisible = Some(FALSE) =>
              /\ view[1].mainCertifications = <<>>
              /\ view[1].twoColumn = None
              /\ view[1].shown.twoColumn = <<>>
        /\ sectionVisible # Some(FALSE) =>
              /\ HasItems("certificationsTraining") =>
                    view[1].mainCertifications = data.certificationsTraining[1]
              /\ view[1].twoColumn =
                    TwoColumnSidebar(Some(TRUE), data, sectionHeadings)
              /\ view[1].mainCertifications =
                    TwoColumnMainCertifications(Some(TRUE), data)

\* Every list has items and the section is hidden: nothing of it is shown.
C28_Witness ==
    /\ view # None
    /\ sectionVisible = Some(FALSE)
    /\ \A key \in AdditionalSectionKey : HasItems(key)
    /\ view[1].mainCertifications = <<>>
    /\ view[1].twoColumn = None

\* No metadata entry, a stored order naming the certifications: the main
\* list and the sidebar block are both shown.
C28_NoEntryVisible ==
    (/\ view # None
     /\ sectionVisible = None
     /\ HasItems("certificationsTraining")
     /\ "certificationsTraining" \in IdsOf(FormOrder(data)))
        => /\ view[1].mainCertifications # <<>>
           /\ view[1].twoColumn # None

\* The custom section the metadata entry names, if the resume has one.
ClaimedSection ==
    IF custom.customSections = None THEN None
    ELSE IF custom.sectionMeta.key \in DOMAIN custom.customSections[1]
    THEN Some(custom.customSections[1][custom.sectionMeta.key])
    ELSE None

\* The section has content for the declared type: text that is not blank,
\* at least one item, at least one string; no other type has content.
ContentAsClaimed ==
    /\ ClaimedSection # None
    /\ LET section == ClaimedSection[1]
           type == custom.sectionMeta.sectionType
       IN  \/ type = "text" /\ section.text # None /\ ~IsBlank(section.text[1])
           \/ type = "itemList" /\ section.items # None /\ Len(section.items[1]) >= 1
           \/ type = "stringList" /\ section.strings # None /\ Len(section.strings[1]) >= 1

\* C29: DynamicResumeSectionModern renders the heading with content exactly
\* when the custom section exists and has content for its declared type;
\* for a missing section, empty content or an unknown type it renders
\* nothing; a rendered container always holds the heading and the content
\* of that type: the text, one entry per item, or the joined strings.
C29_NoEmptyContainer ==
    custom.rendered # None =>
        LET out == custom.rendered[1]
        IN  /\ out # None <=> ContentAsClaimed
            /\ out # None =>
                  /\ out[1].heading = custom.sectionMeta.displayName
                  /\ out[1].content # None
                  /\ LET content == out[1].content[1]
                         section == ClaimedSection[1]
                     IN  CASE content.tag = "p" ->
                                 /\ custom.sectionMeta.sectionType = "text"
                                 /\ content.text = section.text[1]
                           [] content.tag = "items" ->
                                 /\ custom.sectionMeta.sectionType = "itemList"
                                 /\ Len(content.items) = Len(section.items[1])
                                 /\ Len(content.items) >= 1
                                 /\ \A i \in 1..Len(content.items) :
                                       content.items[i].title = section.items[1][i].title
                           [] content.tag = "strings" ->
                                 /\ custom.sectionMeta.sectionType = "stringList"
                                 /\ content.text = JoinComma(section.strings[1])
                           [] OTHER -> FALSE

\* A section of type 'text' holds only blank text, though it has items and
\* strings: nothing was rendered.
C29_Witness ==
    /\ custom.rendered = Some(None)
    /\ custom.sectionMeta.sectionType = "text"
    /\ ClaimedSection # None
    /\ ClaimedSection[1].text = Some(<<" ", "\t">>)
    /\ ClaimedSection[1].items # None /\ Len(ClaimedSection[1].items[1]) = 2
    /\ ClaimedSection[1].strings # None /\ Len(ClaimedSection[1].strings[1]) = 2

\* A section with content of each kind and an unknown type renders nothing.
C29_UnknownType ==
    (custom.rendered # None /\ custom.sectionMeta.sectionType \notin {"text", "itemList", "stringList"})
        => custom.rendered = Some(None)
====
